---------------------------- MODULE Spec2Model ----------------------------
(***************************************************************************)
(* A model of the rasterization core of software-rasterizer: the f32       *)
(* barycentric test, the bounding-box triangle iterator, the Bresenham     *)
(* iterator, the clipped line draw and blit of Bitmap, and the             *)
(* depth-buffered triangle draw.                                           *)
(***************************************************************************)
EXTENDS Integers, Sequences, FiniteSets, TLC

(***************************************************************************)
(* IEEE-754 binary32 arithmetic (Rust f32), round-to-nearest-even.         *)
(* A finite value is [k |-> "fin", s, m, e] and stands for                 *)
(* (-1)^s * m * 2^e with m = 0 (zero, written with s = 0, e = 0) or        *)
(* 2^23 <= m < 2^24.  Infinities and NaN are kept apart.  Every value the  *)
(* model computes has its exponent far inside the binary32 range, so       *)
(* neither overflow nor subnormals arise; signed zeros compare equal in    *)
(* Rust and are kept as one zero.                                          *)
(***************************************************************************)
MantBits == 24

Two(k) == 2 ^ k

Half == Two(MantBits \div 2)

Top == Two(MantBits)

RECURSIVE BitLen(_)
BitLen(n) == IF n = 0 THEN 0 ELSE 1 + BitLen(n \div 2)

FZero == [k |-> "fin", s |-> 0, m |-> 0, e |-> 0]

FNaN == [k |-> "nan", s |-> 0, m |-> 0, e |-> 0]

FInf(s) == [k |-> "inf", s |-> s, m |-> 0, e |-> 0]

Fin(s, m, e) == [k |-> "fin", s |-> s, m |-> m, e |-> e]

Cmp3(a, b) == IF a > b THEN 1 ELSE IF a = b THEN 0 ELSE -1

\* a mantissa that rounding carried up to 2^24 moves to the next exponent
Carry(s, m, e) == IF m = Top THEN Fin(s, Top \div 2, e + 1) ELSE Fin(s, m, e)

\* round to nearest, ties to the even mantissa: cmp is the sign of
\* (dropped part - half an ulp)
RoundUp(s, kept, cmp, e) ==
    Carry(s, IF cmp > 0 \/ (cmp = 0 /\ kept % 2 = 1) THEN kept + 1 ELSE kept, e)

\* hi * 2^24 + lo without its L low bits, 1 <= L <= 30
Kept(hi, lo, L) ==
    IF L <= MantBits THEN hi * Two(MantBits - L) + lo \div Two(L)
    ELSE hi \div Two(L - MantBits)

\* the L low bits of hi * 2^24 + lo against 2^(L-1)
DroppedCmp(hi, lo, L) ==
    IF L <= MantBits THEN Cmp3(lo % Two(L), Two(L - 1))
    ELSE IF hi % Two(L - MantBits) = Two(L - MantBits - 1)
         THEN IF lo > 0 THEN 1 ELSE 0
         ELSE Cmp3(hi % Two(L - MantBits), Two(L - MantBits - 1))

RoundL(s, hi, lo, e, L) == RoundUp(s, Kept(hi, lo, L), DroppedCmp(hi, lo, L), e + L)

Normalize(s, lo, e, sh) == Fin(s, lo * Two(sh), e - sh)

\* the nearest f32 to (-1)^s * (hi * 2^24 + lo) * 2^e, lo < 2^24, hi < 2^30
RoundHL(s, hi, lo, e) ==
    IF hi = 0
    THEN IF lo = 0 THEN FZero ELSE Normalize(s, lo, e, MantBits - BitLen(lo))
    ELSE RoundL(s, hi, lo, e, BitLen(hi))

RoundRec(s, r, e) == RoundHL(s, r.hi, r.lo, e)

IntRound(s, a) == RoundHL(s, a \div Top, a % Top, 0)

\* i32 -> f32 (`as f32`, `.into()`): exact below 2^24, rounded above
FromInt(n) == IF n < 0 THEN IntRound(1, -n) ELSE IntRound(0, n)

FNeg(x) == IF x.k = "nan" \/ (x.k = "fin" /\ x.m = 0) THEN x ELSE [x EXCEPT !.s = 1 - x.s]

\* |x| < |y| for finite x, y
MagLt(x, y) ==
    IF y.m = 0 THEN FALSE
    ELSE IF x.m = 0 THEN TRUE
    ELSE x.e < y.e \/ (x.e = y.e /\ x.m < y.m)

\* x < y (false when either is NaN)
FLt(x, y) ==
    IF x.k = "nan" \/ y.k = "nan" THEN FALSE
    ELSE IF x.k = "inf" THEN x.s = 1 /\ ~(y.k = "inf" /\ y.s = 1)
    ELSE IF y.k = "inf" THEN y.s = 0
    ELSE IF x.s # y.s THEN x.s = 1 /\ ~(x.m = 0 /\ y.m = 0)
    ELSE IF x.s = 0 THEN MagLt(x, y) ELSE MagLt(y, x)

\* x >= 0.0 (false for NaN)
FGe0(x) == (x.k = "inf" /\ x.s = 0) \/ (x.k = "fin" /\ (x.s = 0 \/ x.m = 0))

\* m * 2^d, d <= 25, as high and low 24 bits
ShHi(m, d) == IF d <= MantBits THEN m \div Two(MantBits - d) ELSE m * Two(d - MantBits)

ShLo(m, d) == IF d <= MantBits THEN (m % Two(MantBits - d)) * Two(d) ELSE 0

\* (xh * 2^24 + xl) plus or minus ym, with the sign of the result
SumHL(xs, xh, xl, ys, ym) ==
    IF xs = ys THEN [s |-> xs, hi |-> xh + (xl + ym) \div Top, lo |-> (xl + ym) % Top]
    ELSE IF xh = 0 /\ xl < ym THEN [s |-> ys, hi |-> 0, lo |-> ym - xl]
    ELSE IF xl >= ym THEN [s |-> xs, hi |-> xh, lo |-> xl - ym]
    ELSE [s |-> xs, hi |-> xh - 1, lo |-> xl + Top - ym]

SumRound(r, e) == RoundHL(r.s, r.hi, r.lo, e)

\* x + y for finite nonzero x, y with d = x.e - y.e >= 0: a y below a
\* quarter of x's last place cannot change the rounded sum
AddAligned(x, y, d) ==
    IF d >= MantBits + 2 THEN x
    ELSE SumRound(SumHL(x.s, ShHi(x.m, d), ShLo(x.m, d), y.s, y.m), y.e)

FAdd(x, y) ==
    IF x.k = "nan" \/ y.k = "nan" THEN FNaN
    ELSE IF x.k = "inf"
         THEN IF y.k = "inf" /\ y.s # x.s THEN FNaN ELSE x
    ELSE IF y.k = "inf" THEN y
    ELSE IF x.m = 0 THEN y
    ELSE IF y.m = 0 THEN x
    ELSE IF x.e >= y.e THEN AddAligned(x, y, x.e - y.e) ELSE AddAligned(y, x, y.e - x.e)

FSub(x, y) == FAdd(x, FNeg(y))

\* hh * 2^24 + cr * 2^12 + ll as high and low 24 bits
MulCarry(high, low) == [hi |-> high + low \div Top, lo |-> low % Top]

MulSum(hh, cr, ll) == MulCarry(hh + cr \div Half, ll + (cr % Half) * Half)

\* the exact product of two 24-bit mantissas, from their 12-bit halves
MulHL(a1, a0, b1, b0) == MulSum(a1 * b1, a1 * b0 + a0 * b1, a0 * b0)

FMul(x, y) ==
    IF x.k = "nan" \/ y.k = "nan" THEN FNaN
    ELSE IF x.k = "inf" \/ y.k = "inf"
         THEN IF (x.k = "fin" /\ x.m = 0) \/ (y.k = "fin" /\ y.m = 0)
              THEN FNaN ELSE FInf(IF x.s = y.s THEN 0 ELSE 1)
    ELSE IF x.m = 0 \/ y.m = 0 THEN FZero
    ELSE RoundRec(IF x.s = y.s THEN 0 ELSE 1,
                  MulHL(x.m \div Half, x.m % Half, y.m \div Half, y.m % Half),
                  x.e + y.e)

\* floor(n * 2^k / d) and the remainder, by long division (n < 2 * d)
RECURSIVE LongDiv(_, _, _, _)
LongDiv(q, r, d, k) ==
    IF k = 0 THEN <<q, r>>
    ELSE IF 2 * r >= d THEN LongDiv(2 * q + 1, 2 * r - d, d, k - 1)
         ELSE LongDiv(2 * q, 2 * r, d, k - 1)

\* the quotient bits with a sticky bit for a remainder
Sticky(qr) == 2 * qr[1] + (IF qr[2] # 0 THEN 1 ELSE 0)

DivRound(s, n, e) == RoundHL(s, n \div Top, n % Top, e)

FDiv(x, y) ==
    IF x.k = "nan" \/ y.k = "nan" THEN FNaN
    ELSE IF x.k = "inf" THEN IF y.k = "inf" THEN FNaN ELSE FInf(IF x.s = y.s THEN 0 ELSE 1)
    ELSE IF y.k = "inf" THEN FZero
    ELSE IF y.m = 0 THEN IF x.m = 0 THEN FNaN ELSE FInf(IF x.s = y.s THEN 0 ELSE 1)
    ELSE IF x.m = 0 THEN FZero
    ELSE DivRound(IF x.s = y.s THEN 0 ELSE 1,
                  Sticky(LongDiv(x.m \div y.m, x.m % y.m, y.m, MantBits + 1)),
                  x.e - y.e - MantBits - 2)

(***************************************************************************)
(* Vectors and the barycentric coordinates, util/barycentric.rs.           *)
(***************************************************************************)
Vec2(x, y) == [x |-> x, y |-> y]

Vec3(x, y, z) == [x |-> x, y |-> y, z |-> z]

Dot(a, b) == a.x * b.x + a.y * b.y

VSub(a, b) == Vec2(a.x - b.x, a.y - b.y)

FOne == FromInt(1)

\* u = 1 - v - w, barycentric.rs:35-37
BaryUVW(v, w) == Vec3(FSub(FSub(FOne, v), w), v, w)

\* den, v and w from the dot products, barycentric.rs:30-34
BaryQuot(d00, d01, d11, d20, d21, den) ==
    BaryUVW(FDiv(FromInt(d11 * d20 - d01 * d21), den),
            FDiv(FromInt(d00 * d21 - d01 * d20), den))

\* the dot products, barycentric.rs:24-28
BaryDots(ba, ca, pa) ==
    BaryQuot(Dot(ba, ba), Dot(ba, ca), Dot(ca, ca), Dot(pa, ba), Dot(pa, ca),
             FromInt(Dot(ba, ba) * Dot(ca, ca) - Dot(ba, ca) * Dot(ba, ca)))

\* the dot products are exact in the element type for the coordinates of
\* the model (below 2^24 in f32, below 2^31 in i32); the quotients and
\* u = 1 - v - w are f32 operations
barycentric(p, a, b, c) == BaryDots(VSub(b, a), VSub(c, a), VSub(p, a))

(***************************************************************************)
(* The bounding-box triangle iterator, util/triangle.rs.                   *)
(***************************************************************************)
Min(a, b) == IF a < b THEN a ELSE b

Max(a, b) == IF a > b THEN a ELSE b

\* Triangle::new_bounded: pts is a 3-tuple of Vec2, size the exclusive bound
RECURSIVE BoxOf(_, _, _, _, _)
BoxOf(pts, i, bnd, min, max) ==
    IF i > Len(pts) THEN [min |-> min, max |-> max]
    ELSE BoxOf(pts, i + 1, bnd,
               Vec2(Max(Min(min.x, pts[i].x), 0), Max(Min(min.y, pts[i].y), 0)),
               Vec2(Min(Max(max.x, pts[i].x), bnd.x), Min(Max(max.y, pts[i].y), bnd.y)))

BoxIter(pts, box) == [cur |-> box.min, pts |-> pts, min |-> box.min, max |-> box.max]

BoundedBy(pts, bnd) == BoxIter(pts, BoxOf(pts, 1, bnd, bnd, Vec2(0, 0)))

new_bounded(pts, size) == BoundedBy(pts, Vec2(size.w - 1, size.h - 1))

\* the test of Triangle::next, triangle.rs:87
Inside(b) == FGe0(b.x) /\ FGe0(b.y) /\ FGe0(b.z)

\* the step of Triangle::next, triangle.rs:78-84
Advance(t) ==
    IF t.cur.x + 1 > t.max.x
    THEN [t EXCEPT !.cur = Vec2(t.min.x, t.cur.y + 1)]
    ELSE [t EXCEPT !.cur = Vec2(t.cur.x + 1, t.cur.y)]

NoPoint == [some |-> FALSE, pt |-> Vec2(0, 0), br |-> Vec3(FZero, FZero, FZero)]

\* Triangle::next: the iterator after the call and what the call returned
RECURSIVE TriangleNext(_)
RECURSIVE TriangleTest(_, _)
TriangleTest(t, b) ==
    IF Inside(b) THEN [it |-> Advance(t), some |-> TRUE, pt |-> t.cur, br |-> b]
    ELSE TriangleNext(Advance(t))

TriangleNext(t) ==
    IF t.cur.y <= t.max.y
    THEN TriangleTest(t, barycentric(t.cur, t.pts[1], t.pts[2], t.pts[3]))
    ELSE [it |-> t] @@ NoPoint

\* everything the iterator yields until it returns None (a `for` loop over it)
RECURSIVE TriangleCollect(_)
RECURSIVE TriangleRest(_)
TriangleRest(r) ==
    IF r.some THEN <<[pt |-> r.pt, br |-> r.br]>> \o TriangleCollect(r.it) ELSE <<>>

TriangleCollect(t) == TriangleRest(TriangleNext(t))

(***************************************************************************)
(* The frame, the depth buffer and the depth-buffered draw, src/draw.rs    *)
(* and MyApp::render, src/app.rs.                                          *)
(***************************************************************************)
FrameW == 4

FrameH == 3

MaxDraws == 2

FrameSize == [w |-> FrameW, h |-> FrameH]

Pixels == 0 .. (FrameW * FrameH - 1)

\* f32::MIN = -(2^24 - 1) * 2^104
F32Min == Fin(1, Top - 1, 104)

Black == <<0, 0, 0, 255>>

Red == <<255, 0, 0, 255>>

Blue == <<0, 0, 255, 255>>

White == <<255, 255, 255, 255>>

\* the frame after render's reset, app.rs:18-24
ClearedFrame == [i \in Pixels |-> Black]

\* the z-buffer after render's reset, app.rs:26
ClearedDepth == [i \in Pixels |-> F32Min]

\* `as_()` from f32 to i32: the value truncated toward zero (NaN is 0);
\* the positions of the model stay far below the saturation at 2^31
Truncated(x) ==
    IF x.e >= 0 THEN x.m * Two(x.e)
    ELSE IF -x.e >= MantBits THEN 0
    ELSE x.m \div Two(-x.e)

F32ToI32(x) ==
    IF x.k # "fin" \/ x.m = 0 THEN 0
    ELSE IF x.s = 1 THEN -Truncated(x) ELSE Truncated(x)

\* tri[i].pos.xy().as_(), draw.rs:27
XyAsI32(pos) == Vec2(F32ToI32(pos.x), F32ToI32(pos.y))

\* triangle point depth, draw.rs:32
PtZ(tri, br) ==
    FAdd(FAdd(FMul(tri[1].pos.z, br.x), FMul(tri[2].pos.z, br.y)),
         FMul(tri[3].pos.z, br.z))

\* the index into the depth buffer, draw.rs:34
DepthIndex(pt, width) == pt.y * width + pt.x

\* depth comparisons and stores other than the code's, to show what the
\* properties below depend on
DepthTestLe(bf_z, pt_z) == FLt(bf_z, pt_z) \/ (bf_z.k # "nan" /\ bf_z = pt_z)

DepthTestAlways(bf_z, pt_z) == TRUE

DepthTestGt(bf_z, pt_z) == FLt(pt_z, bf_z)

DepthKeep(depth, i, pt_z) == depth

\* depth comparison, draw.rs:37
DepthTest(bf_z, pt_z) == FLt(bf_z, pt_z)

\* *bf_z = pt_z, draw.rs:39
DepthStore(depth, i, pt_z) == [depth EXCEPT ![i] = pt_z]

\* the fragments of one triangle: the pixels Triangle::new_bounded yields,
\* each with its interpolated depth, draw.rs:26-32
WithDepth(tri, ys) == [i \in 1 .. Len(ys) |-> [pt |-> ys[i].pt, z |-> PtZ(tri, ys[i].br)]]

Fragments(tri, size) ==
    WithDepth(tri, TriangleCollect(new_bounded(
        <<XyAsI32(tri[1].pos), XyAsI32(tri[2].pos), XyAsI32(tri[3].pos)>>, size)))

\* Frame::set(pt, col): the pixel at (y * width + x) * 4 gets the colour
FrameSet(px, pt, width, col) == [px EXCEPT ![pt.y * width + pt.x] = col]

\* the loop of draw::triangle over the fragments fs, from the i-th on
RECURSIVE DepthLoop(_, _, _, _, _)
DepthLoop(fs, i, px, depth, col) ==
    IF i > Len(fs) THEN [px |-> px, depth |-> depth]
    ELSE IF DepthTest(depth[DepthIndex(fs[i].pt, FrameW)], fs[i].z)
         THEN DepthLoop(fs, i + 1, FrameSet(px, fs[i].pt, FrameW, col),
                        DepthStore(depth, DepthIndex(fs[i].pt, FrameW), fs[i].z), col)
         ELSE DepthLoop(fs, i + 1, px, depth, col)

(***************************************************************************)
(* The triangles drawn: vertex positions are f32 values k/2, depths are    *)
(* small integers.  A triangle is named by its three positions in halves   *)
(* and its three depths.                                                   *)
(***************************************************************************)
FHalf(k) == FDiv(FromInt(k), FromInt(2))

TriShapes ==
    << <<Vec2(1, 1), Vec2(7, 0), Vec2(0, 7)>>,
       <<Vec2(6, 4), Vec2(0, 5), Vec2(7, 0)>>,
       <<Vec2(0, 0), Vec2(2, 2), Vec2(4, 4)>> >>

TriAnchors == {Vec2(-3, -3), Vec2(0, 0), Vec2(2, 0)}

TriDepths == {<<5, 5, 5>>, <<10, 10, 10>>, <<3, 6, 12>>}

Palette == {Red, Blue}

TriNames ==
    {[a |-> a, s |-> s, z |-> z] : a \in TriAnchors, s \in {1, 2}, z \in TriDepths}
    \cup {[a |-> Vec2(0, 0), s |-> 3, z |-> <<5, 5, 5>>]}

\* the three vertices (position only: normal and texture coordinate are
\* not read by the draw) of a named triangle
Vertices(t) ==
    [i \in 1 .. 3 |->
        [pos |-> Vec3(FHalf(t.a.x + TriShapes[t.s][i].x),
                      FHalf(t.a.y + TriShapes[t.s][i].y),
                      FromInt(t.z[i]))]]

\* the fragments of every triangle of the model, computed once
FragmentsOf == [t \in TriNames |-> Fragments(Vertices(t), FrameSize)]

\* draw::triangle
triangle(px, depth, t, col) == DepthLoop(FragmentsOf[t], 1, px, depth, col)

(***************************************************************************)
(* isize and usize.  A value is k * 2^61 + r with r small: exact for the   *)
(* sizes, coordinates and byte indices of the model and for everything     *)
(* within a short distance of isize::MIN, isize::MAX and usize::MAX.       *)
(* isize is -4 * 2^61 .. 4 * 2^61 - 1 and usize is 0 .. 8 * 2^61 - 1.      *)
(***************************************************************************)
Big(k, r) == [k |-> k, r |-> r]

Small(n) == Big(0, n)

IsizeMin == Big(-4, 0)

IsizeMax == Big(4, -1)

BAdd(a, b) == Big(a.k + b.k, a.r + b.r)

BSub(a, b) == Big(a.k - b.k, a.r - b.r)

BNeg(a) == Big(-a.k, -a.r)

\* a product with a small integer
BMul(a, n) == Big(a.k * n, a.r * n)

BLt(a, b) == a.k < b.k \/ (a.k = b.k /\ a.r < b.r)

BMin(a, b) == IF BLt(b, a) THEN b ELSE a

BMax(a, b) == IF BLt(a, b) THEN b ELSE a

InIsize(a) == ~BLt(a, IsizeMin) /\ ~BLt(IsizeMax, a)

\* the isize congruent to a modulo 2^64
WrapK(k, r) == IF k = -4 /\ r < 0 THEN Big(4, r) ELSE Big(k, r)

Wrap(a) == WrapK(((a.k + 4) % 8) - 4, a.r)

\* the builds of the crate: arithmetic overflow panics with overflow checks
\* (the dev profile) and wraps without them (the release profile)
Builds == {"debug", "release"}

\* an isize with the record of an overflow on the way to it
Val(v) == [v |-> v, ovf |-> FALSE]

Chk(x, o) == [v |-> Wrap(x), ovf |-> o \/ ~InIsize(x)]

CAdd(a, b) == Chk(BAdd(a.v, b.v), a.ovf \/ b.ovf)

CSub(a, b) == Chk(BSub(a.v, b.v), a.ovf \/ b.ovf)

CNeg(a) == Chk(BNeg(a.v), a.ovf)

CMul(a, n) == Chk(BMul(a.v, n), a.ovf)

\* x, computed after c was
After(c, x) == [x EXCEPT !.ovf = x.ovf \/ c.ovf]

\* `as usize`
AsUsize(v) == IF BLt(v, Small(0)) THEN BAdd(v, Big(8, 0)) ELSE v

(***************************************************************************)
(* Bitmap, framework/src/bitmap.rs: a size and size.w * size.h * 4 bytes,  *)
(* here a function on the byte indices from 0.                             *)
(***************************************************************************)
MaxSide == 2

Sides == 1 .. MaxSide

\* the small offsets put a source anywhere from fully before to fully after
\* the destination; the others are the ends of isize
Offsets ==
    {Small(n) : n \in -(MaxSide + 1) .. (MaxSide + 1)}
        \cup {IsizeMin, BAdd(IsizeMin, Small(1)), BSub(IsizeMax, Small(1)), IsizeMax}

Bytes(w, h) == 0 .. (w * h * 4 - 1)

\* a destination whose bytes are all 0 and a source whose bytes all differ
Blank(w, h) == [size |-> [w |-> w, h |-> h], inner |-> [i \in Bytes(w, h) |-> 0]]

Source(w, h) == [size |-> [w |-> w, h |-> h], inner |-> [i \in Bytes(w, h) |-> i + 1]]

Panicked(inner) == [status |-> "panic", inner |-> inner]

Returned(inner) == [status |-> "ok", inner |-> inner]

\* a[str..end] is in range for a slice of len bytes
SliceOk(str, end, len) == ~BLt(end, str) /\ ~BLt(Small(len), end)

\* dst[dst_str..dst_end].copy_from_slice(&src[src_str..src_end]), in range
\* and of equal lengths
CopyFromSlice(dst, dst_str, dst_end, src, src_str) ==
    [i \in DOMAIN dst |->
        IF dst_str <= i /\ i < dst_end THEN src[src_str + (i - dst_str)] ELSE dst[i]]

\* the slices and the copy of one row, bitmap.rs:256
CopySlices(inner, src, ds, de, ss, se) ==
    IF ~SliceOk(ds, de, Cardinality(DOMAIN inner)) THEN Panicked(inner)
    ELSE IF ~SliceOk(ss, se, Cardinality(DOMAIN src.inner)) THEN Panicked(inner)
    ELSE IF de.r - ds.r # se.r - ss.r THEN Panicked(inner)
    ELSE Returned(CopyFromSlice(inner, ds.r, de.r, src.inner, ss.r))

\* one row of the loop, bitmap.rs:249-256
CopyRow(inner, src, build, src_str, src_end, dst_str, dst_end) ==
    IF build = "debug" /\ (src_str.ovf \/ src_end.ovf \/ dst_str.ovf \/ dst_end.ovf)
    THEN Panicked(inner)
    ELSE CopySlices(inner, src, AsUsize(dst_str.v), AsUsize(dst_end.v),
                    AsUsize(src_str.v), AsUsize(src_end.v))

\* the byte index (row * width * 4) + (col * 4), bitmap.rs:249-253
ByteIndex(row, width, col) == CAdd(CMul(CMul(row, width), 4), CMul(col, 4))

\* for y in src_min.y..src_max.y, bitmap.rs:247-257
RECURSIVE CopyRows(_, _, _)
RECURSIVE CopyNext(_, _, _)
CopyNext(r, y, c) ==
    IF r.status = "panic" THEN r ELSE CopyRows(r.inner, BAdd(y, Small(1)), c)

CopyRows(inner, y, c) ==
    IF ~BLt(y, c.src_max_y) THEN Returned(inner)
    ELSE CopyNext(CopyRow(inner, c.src, c.build,
                          ByteIndex(Val(y), c.src.size.w, Val(c.src_min_x)),
                          ByteIndex(Val(y), c.src.size.w, Val(c.src_max_x)),
                          ByteIndex(CAdd(Val(y), Val(c.pos.y)), c.dst_w, Val(c.dst_min_x)),
                          ByteIndex(CAdd(Val(y), Val(c.pos.y)), c.dst_w, Val(c.dst_max_x))),
                  y, c)

\* src_min of one axis, bitmap.rs:232
SrcMinNeg(p, s) == [v |-> BMin(p.v, s), ovf |-> p.ovf]

SrcMin(p, s) == IF BLt(p, Small(0)) THEN SrcMinNeg(CNeg(Val(p)), s) ELSE Val(BMin(Small(0), s))

\* src_max of one axis, bitmap.rs:233
SrcMaxOver(sum, p, ss, ds) ==
    IF BLt(ds, sum.v) THEN After(sum, CSub(Val(ds), Val(p))) ELSE After(sum, Val(ss))

SrcMax(p, ss, ds) == SrcMaxOver(CAdd(Val(p), Val(ss)), p, ss, ds)

\* dst_min_x, bitmap.rs:236
DstMinX(pos) == IF BLt(pos.x, Small(0)) THEN Small(0) ELSE pos.x

\* from "nothing to copy" to the end, bitmap.rs:239-257
BlitRows(dst, src, pos, build, src_min_x, src_min_y, src_max_x, src_max_y, dst_max_x) ==
    IF build = "debug"
          /\ (src_min_x.ovf \/ src_min_y.ovf \/ src_max_x.ovf \/ src_max_y.ovf \/ dst_max_x.ovf)
    THEN Panicked(dst.inner)
    ELSE IF BLt(dst_max_x.v, DstMinX(pos)) THEN Returned(dst.inner)
    ELSE CopyRows(dst.inner, src_min_y.v,
                  [src |-> src, build |-> build, pos |-> pos, dst_w |-> dst.size.w,
                   src_min_x |-> src_min_x.v, src_max_x |-> src_max_x.v,
                   src_max_y |-> src_max_y.v, dst_min_x |-> DstMinX(pos),
                   dst_max_x |-> dst_max_x.v])

\* dst_max_x, bitmap.rs:237
BlitBox(dst, src, pos, build, src_min_x, src_min_y, src_max_x, src_max_y) ==
    BlitRows(dst, src, pos, build, src_min_x, src_min_y, src_max_x, src_max_y,
             CAdd(Val(DstMinX(pos)), CSub(src_max_x, src_min_x)))

\* Bitmap::draw_bitmap: the status of the call and the bytes of self after
draw_bitmap(dst, src, pos, build) ==
    BlitBox(dst, src, pos, build,
            SrcMin(pos.x, Small(src.size.w)), SrcMin(pos.y, Small(src.size.h)),
            SrcMax(pos.x, Small(src.size.w), Small(dst.size.w)),
            SrcMax(pos.y, Small(src.size.h), Small(dst.size.h)))

(***************************************************************************)
(* |n| and Vec2::yx.                                                       *)
(***************************************************************************)
Abs(n) == IF n < 0 THEN -n ELSE n

\* Vec2::yx
Yx(p) == Vec2(p.y, p.x)

(***************************************************************************)
(* Bitmap::draw_pixel and Bitmap::draw_line, framework/src/bitmap.rs.      *)
(***************************************************************************)
InUsize(a) == ~BLt(a, Small(0)) /\ BLt(a, Big(8, 0))

\* the usize congruent to a modulo 2^64
WrapUK(k, r) == IF k = 0 /\ r < 0 THEN Big(8, r) ELSE Big(k, r)

WrapU(a) == WrapUK(a.k % 8, a.r)

\* a usize with the record of an overflow on the way to it
UChk(x, o) == [v |-> WrapU(x), ovf |-> o \/ ~InUsize(x)]

UAdd(a, b) == UChk(BAdd(a.v, b.v), a.ovf \/ b.ovf)

UMul(a, n) == UChk(BMul(a.v, n), a.ovf)

\* an isize coordinate `as usize`
CoordAsUsize(n) == Val(AsUsize(Small(n)))

\* ind = (pos.y as usize * self.width() + pos.x as usize) * 4, bitmap.rs:210
PixelIndex(pos, width) ==
    UMul(UAdd(UMul(CoordAsUsize(pos.y), width), CoordAsUsize(pos.x)), 4)

\* [ind..ind + 4].copy_from_slice(&col), bitmap.rs:212-214
PixelWrite(inner, ind, end, col, build) ==
    IF build = "debug" /\ end.ovf THEN Panicked(inner)
    ELSE IF ~SliceOk(ind.v, end.v, Cardinality(DOMAIN inner)) THEN Panicked(inner)
    ELSE Returned([i \in DOMAIN inner |->
                      IF ind.v.r <= i /\ i < end.v.r THEN col[i - ind.v.r + 1] ELSE inner[i]])

PixelSlice(inner, ind, col, build) ==
    PixelWrite(inner, ind, UAdd(ind, Val(Small(4))), col, build)

\* Bitmap::draw_pixel: the status of the call and the bytes after
draw_pixel(inner, width, pos, col, build) ==
    PixelSlice(inner, PixelIndex(pos, width), col, build)

\* a call of draw_pixel from draw_line: r is the status and the bytes so
\* far and the positions passed so far
PlotResult(r, d, pos) ==
    [status |-> d.status, inner |-> d.inner, calls |-> Append(r.calls, pos)]

Plot(r, pos, c) == PlotResult(r, draw_pixel(r.inner, c.width, pos, c.col, c.build), pos)

\* draw_pixel at each of ps in turn, until one panics
RECURSIVE PlotAll(_, _, _, _)
PlotAll(r, ps, i, c) ==
    IF i > Len(ps) \/ r.status = "panic" THEN r
    ELSE PlotAll(Plot(r, ps[i], c), ps, i + 1, c)

\* Rust's `/` and `%` on isize: the quotient is truncated toward zero
TruncDiv(a, b) ==
    IF (a < 0) = (b < 0) THEN Abs(a) \div Abs(b) ELSE -(Abs(a) \div Abs(b))

TruncRem(a, b) == a - TruncDiv(a, b) * b

\* for y in lo..hi and for y in (lo..hi).rev(), at column x
ColumnUp(x, lo, hi) == [i \in 1 .. (hi - lo) |-> Vec2(x, lo + i - 1)]

ColumnDown(x, lo, hi) == [i \in 1 .. (hi - lo) |-> Vec2(x, hi - i)]

\* for x in lo..hi, at row y
RowUp(y, lo, hi) == [i \in 1 .. (hi - lo) |-> Vec2(lo + i - 1, y)]

\* Vertical line, bitmap.rs:276-310
VerticalLine(r, a, b, max, c) ==
    IF a.x < 0 \/ a.x >= max.x THEN r
    ELSE IF a.y <= b.y
         THEN IF b.y < 0 \/ a.y >= max.y THEN r
              ELSE PlotAll(r, ColumnUp(a.x, Max(a.y, 0), Min(b.y, max.y)), 1, c)
         ELSE IF a.y < 0 \/ b.y >= max.y THEN r
              ELSE PlotAll(r, ColumnDown(a.x, Max(b.y, 0), Min(a.y, max.y)), 1, c)

\* Horizontal line, bitmap.rs:312-347
HorizontalLine(r, a, b, max, c) ==
    IF a.y < 0 \/ a.y >= max.y THEN r
    ELSE IF a.x <= b.x
         THEN IF b.x < 0 \/ a.x >= max.x THEN r
              ELSE PlotAll(r, RowUp(a.y, Max(a.x, 0), Min(b.x, max.x)), 1, c)
         ELSE IF a.x < 0 \/ b.x >= max.x THEN r
              ELSE PlotAll(r, RowUp(a.y, Max(b.x, 0), Min(a.x, max.x)), 1, c)

\* the clipping state: a, b, min, max after the sign changes, the signs, and
\* ret when the function has returned
ClipX(a, b, min, max) ==
    IF a.x < b.x
    THEN [a |-> a, b |-> b, min |-> min, max |-> max, sign_x |-> 1,
          ret |-> a.x >= max.x \/ b.x < min.x]
    ELSE [a |-> Vec2(-a.x, a.y), b |-> Vec2(-b.x, b.y),
          min |-> Vec2(-max.x, min.y), max |-> Vec2(-min.x, max.y), sign_x |-> -1,
          ret |-> b.x >= max.x \/ a.x < min.x]

\* bitmap.rs:379-403
ClipY(s) ==
    IF s.ret THEN s @@ [sign_y |-> 1]
    ELSE IF s.a.y < s.b.y
    THEN [s EXCEPT !.ret = s.a.y >= s.max.y \/ s.b.y < s.min.y] @@ [sign_y |-> 1]
    ELSE [a |-> Vec2(s.a.x, -s.a.y), b |-> Vec2(s.b.x, -s.b.y),
          min |-> Vec2(s.min.x, -s.max.y), max |-> Vec2(s.max.x, -s.min.y),
          sign_x |-> s.sign_x, sign_y |-> -1,
          ret |-> s.b.y >= s.max.y \/ s.a.y < s.min.y]

\* the deltas and the plotting values, bitmap.rs:405-413
Deltas(s) ==
    s @@ [delta_x |-> s.b.x - s.a.x, delta_y |-> s.b.y - s.a.y,
          delta_x_step |-> 2 * (s.b.x - s.a.x), delta_y_step |-> 2 * (s.b.y - s.a.y),
          x_pos |-> s.a.x, y_pos |-> s.a.y, set_exit |-> FALSE]

\* Line starts below the clip window, bitmap.rs:420-448
ShallowBelowAt(s, temp, msd) ==
    IF s.x_pos + msd >= s.max.x THEN [s EXCEPT !.ret = TRUE]
    ELSE IF s.x_pos + msd >= s.min.x
    THEN [s EXCEPT !.y_pos = s.min.y,
                   !.x_pos = IF temp - msd * s.delta_y_step > 0
                             THEN s.x_pos + msd + 1 ELSE s.x_pos + msd,
                   !.error = IF temp - msd * s.delta_y_step > 0
                             THEN s.error - ((temp - msd * s.delta_y_step) + s.delta_x)
                                      + s.delta_y_step
                             ELSE s.error - ((temp - msd * s.delta_y_step) + s.delta_x),
                   !.set_exit = TRUE]
    ELSE [s EXCEPT !.x_pos = s.x_pos + msd]

ShallowBelowBy(s, temp) == ShallowBelowAt(s, temp, TruncDiv(temp, s.delta_y_step))

ShallowBelow(s) ==
    IF s.a.y < s.min.y THEN ShallowBelowBy(s, (2 * (s.min.y - s.a.y) - 1) * s.delta_x)
    ELSE s

\* Line starts left of the clip window, bitmap.rs:450-472
ShallowLeftAt(s, y_pos, rem) ==
    IF y_pos > s.max.y \/ (y_pos = s.max.y /\ rem >= s.delta_x) THEN [s EXCEPT !.ret = TRUE]
    ELSE [s EXCEPT !.x_pos = s.min.x,
                   !.y_pos = IF rem >= s.delta_x THEN y_pos + 1 ELSE y_pos,
                   !.error = IF rem >= s.delta_x THEN s.error + rem - s.delta_x_step
                             ELSE s.error + rem]

ShallowLeftBy(s, temp) ==
    ShallowLeftAt(s, s.y_pos + TruncDiv(temp, s.delta_x_step), TruncRem(temp, s.delta_x_step))

ShallowLeft(s) ==
    IF ~s.ret /\ ~s.set_exit /\ s.a.x < s.min.x
    THEN ShallowLeftBy(s, s.delta_y_step * (s.min.x - s.a.x))
    ELSE s

\* x_pos_end, bitmap.rs:474-487
ShallowCrossAt(s, temp, msd) ==
    IF temp - msd * s.delta_y_step = 0 THEN s.a.x + msd - 1 ELSE s.a.x + msd

ShallowCross(s, temp) == ShallowCrossAt(s, temp, TruncDiv(temp, s.delta_y_step))

ShallowEnd(s) ==
    IF s.b.y >= s.max.y
    THEN Min(ShallowCross(s, s.delta_x_step * (s.max.y - s.a.y) + s.delta_x), s.max.x)
    ELSE Min(s.b.x, s.max.x)

\* while x_pos != x_pos_end, bitmap.rs:502-517
RECURSIVE ShallowLoop(_, _, _, _, _, _)
ShallowLoop(r, x_pos, y_pos, error, s, c) ==
    IF x_pos = s.x_pos_end \/ r.status = "panic" THEN r
    ELSE ShallowLoop(Plot(r, Vec2(x_pos, y_pos), c),
                     x_pos + s.sign_x,
                     IF error >= 0 THEN y_pos + s.sign_y ELSE y_pos,
                     IF error >= 0 THEN error - (s.delta_x_step - s.delta_y_step)
                     ELSE error + s.delta_y_step,
                     s, c)

\* the signs put back and the loop, bitmap.rs:489-517
ShallowPlot(r, s, x_pos_end, c) ==
    ShallowLoop(r,
                IF s.sign_x = -1 THEN -s.x_pos ELSE s.x_pos,
                IF s.sign_y = -1 THEN -s.y_pos ELSE s.y_pos,
                s.error,
                s @@ [x_pos_end |-> IF s.sign_x = -1 THEN -x_pos_end ELSE x_pos_end],
                c)

ShallowClipped(r, s, c) == IF s.ret THEN r ELSE ShallowPlot(r, s, ShallowEnd(s), c)

\* delta_x >= delta_y, bitmap.rs:415-518
Shallow(r, s, c) ==
    ShallowClipped(r, ShallowLeft(ShallowBelow(s @@ [error |-> s.delta_y_step - s.delta_x])), c)

\* Line starts left of the clip window, bitmap.rs:527-555
SteepLeftAt(s, temp, msd) ==
    IF s.y_pos + msd >= s.max.y THEN [s EXCEPT !.ret = TRUE]
    ELSE IF s.y_pos + msd >= s.min.y
    THEN [s EXCEPT !.x_pos = s.min.x,
                   !.y_pos = IF temp - msd * s.delta_x_step > 0
                             THEN s.y_pos + msd + 1 ELSE s.y_pos + msd,
                   !.error = IF temp - msd * s.delta_x_step > 0
                             THEN s.error - ((temp - msd * s.delta_x_step) + s.delta_y)
                                      + s.delta_x_step
                             ELSE s.error - ((temp - msd * s.delta_x_step) + s.delta_y),
                   !.set_exit = TRUE]
    ELSE [s EXCEPT !.y_pos = s.y_pos + msd]

SteepLeftBy(s, temp) == SteepLeftAt(s, temp, TruncDiv(temp, s.delta_x_step))

SteepLeft(s) ==
    IF s.a.x < s.min.x THEN SteepLeftBy(s, (2 * (s.min.x - s.a.x) - 1) * s.delta_y)
    ELSE s

\* Line starts below the clip window, bitmap.rs:557-579
SteepBelowAt(s, x_pos, rem) ==
    IF x_pos > s.max.x \/ (x_pos = s.max.x /\ rem >= s.delta_y) THEN [s EXCEPT !.ret = TRUE]
    ELSE [s EXCEPT !.y_pos = s.min.y,
                   !.x_pos = IF rem >= s.delta_y THEN x_pos + 1 ELSE x_pos,
                   !.error = IF rem >= s.delta_y THEN s.error + rem - s.delta_y_step
                             ELSE s.error + rem]

SteepBelowBy(s, temp) ==
    SteepBelowAt(s, s.x_pos + TruncDiv(temp, s.delta_y_step), TruncRem(temp, s.delta_y_step))

SteepBelow(s) ==
    IF ~s.ret /\ ~s.set_exit /\ s.a.y < s.min.y
    THEN SteepBelowBy(s, s.delta_x_step * (s.min.y - s.a.y))
    ELSE s

\* y_pos_end, bitmap.rs:581-594
SteepCrossAt(s, temp, msd) ==
    IF temp - msd * s.delta_x_step = 0 THEN s.a.y + msd - 1 ELSE s.a.y + msd

SteepCross(s, temp) == SteepCrossAt(s, temp, TruncDiv(temp, s.delta_x_step))

SteepEnd(s) ==
    IF s.b.x >= s.max.x
    THEN Min(SteepCross(s, s.delta_y_step * (s.max.x - s.a.x) + s.delta_y), s.max.y)
    ELSE Min(s.b.y, s.max.y)

\* while y_pos != y_pos_end, bitmap.rs:607-622
RECURSIVE SteepLoop(_, _, _, _, _, _)
SteepLoop(r, x_pos, y_pos, error, s, c) ==
    IF y_pos = s.y_pos_end \/ r.status = "panic" THEN r
    ELSE SteepLoop(Plot(r, Vec2(x_pos, y_pos), c),
                   IF error >= 0 THEN x_pos + s.sign_x ELSE x_pos,
                   y_pos + s.sign_y,
                   IF error >= 0 THEN error - (s.delta_y_step - s.delta_x_step)
                   ELSE error + s.delta_x_step,
                   s, c)

\* the signs put back and the loop, bitmap.rs:595-622
SteepPlot(r, s, y_pos_end, c) ==
    SteepLoop(r,
              IF s.sign_x = -1 THEN -s.x_pos ELSE s.x_pos,
              IF s.sign_y = -1 THEN -s.y_pos ELSE s.y_pos,
              s.error,
              s @@ [y_pos_end |-> IF s.sign_y = -1 THEN -y_pos_end ELSE y_pos_end],
              c)

SteepClipped(r, s, c) == IF s.ret THEN r ELSE SteepPlot(r, s, SteepEnd(s), c)

\* delta_x < delta_y, bitmap.rs:519-623
Steep(r, s, c) ==
    SteepClipped(r, SteepBelow(SteepLeft(s @@ [error |-> s.delta_x_step - s.delta_y])), c)

\* from the clipping checks on, bitmap.rs:349-623
SlantedFrom(r, s, c) ==
    IF s.ret THEN r
    ELSE IF s.delta_x >= s.delta_y THEN Shallow(r, s, c) ELSE Steep(r, s, c)

SlantedLine(r, a, b, max, c) ==
    SlantedFrom(r, Deltas(ClipY(ClipX(a, b, Vec2(0, 0), max))), c)

LineFrom(r, a, b, max, c) ==
    IF a.x = b.x THEN VerticalLine(r, a, b, max, c)
    ELSE IF a.y = b.y THEN HorizontalLine(r, a, b, max, c)
    ELSE SlantedLine(r, a, b, max, c)

\* Bitmap::draw_line: the status of the call, the bytes of self after it and
\* the positions it passed to draw_pixel
draw_line(bm, a, b, col, build) ==
    LineFrom([status |-> "ok", inner |-> bm.inner, calls |-> <<>>], a, b,
             Vec2(bm.size.w, bm.size.h),
             [width |-> bm.size.w, col |-> col, build |-> build])

(***************************************************************************)
(* isize at its full width, for the arithmetic of Bitmap::draw_line: a      *)
(* value is its eight bytes, least significant first (to_le_bytes), and a  *)
(* negative value is in two's complement.                                  *)
(***************************************************************************)
\* the carries of the n columns c of a sum or a product, from column i up
RECURSIVE Carried(_, _, _, _)
CarriedOn(c, i, n, sum) == <<sum % 256>> \o Carried(c, i + 1, n, sum \div 256)

Carried(c, i, n, carry) == IF i > n THEN <<>> ELSE CarriedOn(c, i, n, c[i] + carry)

\* the sum of a[j] * b[k + 1 - j] from j up: column k of the product
RECURSIVE Column(_, _, _, _)
Column(a, b, k, j) ==
    IF j > k \/ j > 8 THEN 0
    ELSE IF k + 1 - j > 8 THEN Column(a, b, k, j + 1)
    ELSE a[j] * b[k + 1 - j] + Column(a, b, k, j + 1)

\* the lowest n bytes of the product of the unsigned a and b
Product(a, b, n) == Carried([k \in 1 .. n |-> Column(a, b, k, 1)], 1, n, 0)

\* wrapping_add, wrapping_sub, wrapping_neg and wrapping_mul
WAdd(a, b) == Carried([i \in 1 .. 8 |-> a[i] + b[i]], 1, 8, 0)

WSub(a, b) == Carried([i \in 1 .. 8 |-> a[i] + 255 - b[i]], 1, 8, 1)

I64Zero == [i \in 1 .. 8 |-> 0]

WNeg(a) == WSub(I64Zero, a)

WMul(a, b) == Product(a, b, 8)

IsNeg(a) == a[8] >= 128

\* a < b as unsigned values and as isize
ULt(a, b) == \E i \in 1 .. 8 : a[i] < b[i] /\ \A j \in (i + 1) .. 8 : a[j] = b[j]

WLt(a, b) == IF IsNeg(a) # IsNeg(b) THEN IsNeg(a) ELSE ULt(a, b)

WLe(a, b) == ~WLt(b, a)

WMin(a, b) == IF WLt(b, a) THEN b ELSE a

\* an integer of the model as an isize, and back
FromNat(n) == [i \in 1 .. 8 |-> IF i <= 4 THEN (n \div 256 ^ (i - 1)) % 256 ELSE 0]

I64(n) == IF n < 0 THEN WNeg(FromNat(-n)) ELSE FromNat(n)

AsNat(a) == a[1] + 256 * a[2] + 65536 * a[3] + 16777216 * a[4]

AsInt(a) == IF IsNeg(a) THEN -AsNat(WNeg(a)) ELSE AsNat(a)

\* |a| < 2^31: the value is an integer of the model
IsInt(a) ==
    IF IsNeg(a) THEN \A i \in 5 .. 8 : a[i] = 255 /\ a[4] >= 128
    ELSE \A i \in 5 .. 8 : a[i] = 0 /\ a[4] < 128

\* 2^e
Pow2(e) == [i \in 1 .. 8 |-> IF i = e \div 8 + 1 THEN 2 ^ (e % 8) ELSE 0]

I64Min == Pow2(63)

\* the unsigned |a|
Magnitude(a) == IF IsNeg(a) THEN WNeg(a) ELSE a

\* the exact sum, difference or product is not an isize: the overflow that
\* panics with overflow checks and wraps without them
AddOverflows(a, b) == IsNeg(a) = IsNeg(b) /\ IsNeg(WAdd(a, b)) # IsNeg(a)

SubOverflows(a, b) == IsNeg(a) # IsNeg(b) /\ IsNeg(WSub(a, b)) # IsNeg(a)

TooWide(p, negative) ==
    \/ \E i \in 9 .. 16 : p[i] # 0
    \/ p[8] >= 128 /\ ~(negative /\ p[8] = 128 /\ \A i \in 1 .. 7 : p[i] = 0)

MulOverflows(a, b) == TooWide(Product(Magnitude(a), Magnitude(b), 16), IsNeg(a) # IsNeg(b))

\* bit t of n, from 1
BitOf(n, t) == (n[(t - 1) \div 8 + 1] \div 2 ^ ((t - 1) % 8)) % 2

\* 2 * r + bit
Doubled(r, bit) == Carried([i \in 1 .. 8 |-> 2 * r[i]], 1, 8, bit)

\* the long division of the unsigned n by d # 0, from bit t of n down: qr is
\* the quotient q and the remainder r so far
RECURSIVE LongDivision(_, _, _, _)
Subtracted(n, d, t, qr) ==
    IF ULt(qr.r, d) THEN LongDivision(n, d, t - 1, [q |-> Doubled(qr.q, 0), r |-> qr.r])
    ELSE LongDivision(n, d, t - 1, [q |-> Doubled(qr.q, 1), r |-> WSub(qr.r, d)])

LongDivision(n, d, t, qr) ==
    IF t = 0 THEN qr
    ELSE Subtracted(n, d, t, [q |-> qr.q, r |-> Doubled(qr.r, BitOf(n, t))])

\* the bits of n from its highest byte that is not 0
TopBit(n) == IF n = I64Zero THEN 0 ELSE 8 * CHOOSE i \in 1 .. 8 : n[i] # 0 /\ \A j \in (i + 1) .. 8 : n[j] = 0

UDiv(n, d) == LongDivision(n, d, TopBit(n), [q |-> I64Zero, r |-> I64Zero]).q

\* isize `/` and `%`: the quotient is truncated toward zero; both panic for
\* a divisor of 0 and for isize::MIN / -1, with and without overflow checks
DivPanics(a, b) == b = I64Zero \/ (a = I64Min /\ b = I64(-1))

Signed(q, negative) == IF negative THEN WNeg(q) ELSE q

WDiv(a, b) == Signed(UDiv(Magnitude(a), Magnitude(b)), IsNeg(a) # IsNeg(b))

WRem(a, b) == WSub(a, WMul(WDiv(a, b), b))

(***************************************************************************)
(* Bitmap::draw_line and Bitmap::draw_pixel on endpoints of the whole      *)
(* isize range: every `+`, `-` and `*` of bitmap.rs:265-623 is an isize    *)
(* operation that panics on overflow in a debug build and wraps in a       *)
(* release build.                                                           *)
(***************************************************************************)
\* an isize with the record of an overflow on the way to it
Exact(v) == [v |-> v, ovf |-> FALSE]

KAdd(a, b) == [v |-> WAdd(a.v, b.v), ovf |-> a.ovf \/ b.ovf \/ AddOverflows(a.v, b.v)]

KSub(a, b) == [v |-> WSub(a.v, b.v), ovf |-> a.ovf \/ b.ovf \/ SubOverflows(a.v, b.v)]

KMul(a, b) == [v |-> WMul(a.v, b.v), ovf |-> a.ovf \/ b.ovf \/ MulOverflows(a.v, b.v)]

KNeg(a) == KSub(Exact(I64Zero), a)

\* a usize sum or product that does not fit 64 bits
USumOverflows(a, b) == ULt(WAdd(a, b), a)

HighBytes(p) == \E i \in 9 .. 16 : p[i] # 0

UProductOverflows(a, b) == HighBytes(Product(a, b, 16))

KUAdd(a, b) == [v |-> WAdd(a.v, b.v), ovf |-> a.ovf \/ b.ovf \/ USumOverflows(a.v, b.v)]

KUMul(a, b) == [v |-> WMul(a.v, b.v), ovf |-> a.ovf \/ b.ovf \/ UProductOverflows(a.v, b.v)]

\* ind = (pos.y as usize * self.width() + pos.x as usize) * 4, bitmap.rs:210:
\* `as usize` keeps the eight bytes
PixelIndex64(pos, width) ==
    KUMul(KUAdd(KUMul(Exact(pos.y), Exact(I64(width))), Exact(pos.x)), Exact(I64(4)))

\* [ind..ind + 4].copy_from_slice(&col), bitmap.rs:212-214
PixelWrite64(inner, ind, end, col, build) ==
    IF build = "debug" /\ end.ovf THEN Panicked(inner)
    ELSE IF ULt(end.v, ind.v) \/ ULt(I64(Cardinality(DOMAIN inner)), end.v) THEN Panicked(inner)
    ELSE Returned([i \in DOMAIN inner |->
                      IF AsInt(ind.v) <= i /\ i < AsInt(end.v) THEN col[i - AsInt(ind.v) + 1]
                      ELSE inner[i]])

PixelSlice64(inner, ind, col, build) ==
    PixelWrite64(inner, ind, KUAdd(ind, Exact(I64(4))), col, build)

\* Bitmap::draw_pixel at an isize position
draw_pixel64(inner, width, pos, col, build) ==
    PixelSlice64(inner, PixelIndex64(pos, width), col, build)

\* the state of a call of draw_line: its variables, st = "run" until the
\* call has returned ("ret") or panicked ("panic"), and the bytes of self
Returns(s) == [s EXCEPT !.st = "ret"]

Panics(s) == [s EXCEPT !.st = "panic"]

\* an overflow panics in a debug build
Overflowed(s, ovf) == s.build = "debug" /\ ovf

\* draw_pixel at each of ps in turn, until one panics
RECURSIVE PlotAll64(_, _, _)
PlottedAll64(s, ps, i, d) ==
    IF d.status = "panic" THEN Panics([s EXCEPT !.calls = Append(s.calls, ps[i])])
    ELSE PlotAll64([s EXCEPT !.inner = d.inner, !.calls = Append(s.calls, ps[i])], ps, i + 1)

PlotAll64(s, ps, i) ==
    IF i > Len(ps) THEN Returns(s)
    ELSE PlottedAll64(s, ps, i, draw_pixel64(s.inner, s.width, ps[i], s.col, s.build))

WMax(a, b) == IF WLt(a, b) THEN b ELSE a

\* the positions of a range of integers of the model, as isize
Column64(ps) == [i \in 1 .. Len(ps) |-> Vec2(I64(ps[i].x), I64(ps[i].y))]

\* Vertical line, bitmap.rs:276-310: a clamped coordinate is in 0 .. max
VerticalLine64(s) ==
    IF WLt(s.a.x, s.min.x) \/ ~WLt(s.a.x, s.max.x) THEN Returns(s)
    ELSE IF WLe(s.a.y, s.b.y)
         THEN IF WLt(s.b.y, s.min.y) \/ ~WLt(s.a.y, s.max.y) THEN Returns(s)
              ELSE PlotAll64(s, Column64(ColumnUp(AsInt(s.a.x), AsInt(WMax(s.a.y, s.min.y)),
                                                  AsInt(WMin(s.b.y, s.max.y)))), 1)
         ELSE IF WLt(s.a.y, s.min.y) \/ ~WLt(s.b.y, s.max.y) THEN Returns(s)
              ELSE PlotAll64(s, Column64(ColumnDown(AsInt(s.a.x), AsInt(WMax(s.b.y, s.min.y)),
                                                    AsInt(WMin(s.a.y, s.max.y)))), 1)

\* Horizontal line, bitmap.rs:312-347
HorizontalLine64(s) ==
    IF WLt(s.a.y, s.min.y) \/ ~WLt(s.a.y, s.max.y) THEN Returns(s)
    ELSE IF WLe(s.a.x, s.b.x)
         THEN IF WLt(s.b.x, s.min.x) \/ ~WLt(s.a.x, s.max.x) THEN Returns(s)
              ELSE PlotAll64(s, Column64(RowUp(AsInt(s.a.y), AsInt(WMax(s.a.x, s.min.x)),
                                               AsInt(WMin(s.b.x, s.max.x)))), 1)
         ELSE IF WLt(s.a.x, s.min.x) \/ ~WLt(s.b.x, s.max.x) THEN Returns(s)
              ELSE PlotAll64(s, Column64(RowUp(AsInt(s.a.y), AsInt(WMax(s.b.x, s.min.x)),
                                               AsInt(WMin(s.a.x, s.max.x)))), 1)

\* x and y of every variable exchanged: the block for steep lines is "the
\* previous block of code with swapped x/y axis" (bitmap.rs:521-522), and the
\* clipping checks for y (bitmap.rs:379-403) are those for x (bitmap.rs:353-377)
Transposed(s) ==
    [s EXCEPT !.a = Yx(s.a), !.b = Yx(s.b), !.min = Yx(s.min), !.max = Yx(s.max),
              !.sign_x = s.sign_y, !.sign_y = s.sign_x,
              !.delta_x = s.delta_y, !.delta_y = s.delta_x,
              !.delta_x_step = s.delta_y_step, !.delta_y_step = s.delta_x_step,
              !.x_pos = s.y_pos, !.y_pos = s.x_pos, !.steep = ~s.steep]

\* Invert sign, invert again right before plotting, bitmap.rs:367-376
InvertX(s) ==
    IF Overflowed(s, KNeg(Exact(s.a.x)).ovf \/ KNeg(Exact(s.b.x)).ovf) THEN Panics(s)
    ELSE [s EXCEPT !.sign_x = -1, !.a.x = WNeg(s.a.x), !.b.x = WNeg(s.b.x),
                   !.min.x = WNeg(s.max.x), !.max.x = WNeg(s.min.x)]

\* the clipping checks for x, bitmap.rs:353-377
ClipX64(s) ==
    IF s.st # "run" THEN s
    ELSE IF WLt(s.a.x, s.b.x)
    THEN IF ~WLt(s.a.x, s.max.x) \/ WLt(s.b.x, s.min.x) THEN Returns(s)
         ELSE [s EXCEPT !.sign_x = 1]
    ELSE IF ~WLt(s.b.x, s.max.x) \/ WLt(s.a.x, s.min.x) THEN Returns(s)
    ELSE InvertX(s)

\* the clipping checks for y, bitmap.rs:379-403
ClipY64(s) == Transposed(ClipX64(Transposed(s)))

\* the deltas and the plotting values, bitmap.rs:405-413
DeltaSteps(s, dx, dy, dxs, dys) ==
    IF Overflowed(s, dxs.ovf \/ dys.ovf) THEN Panics(s)
    ELSE [s EXCEPT !.delta_x = dx.v, !.delta_y = dy.v,
                   !.delta_x_step = dxs.v, !.delta_y_step = dys.v,
                   !.x_pos = s.a.x, !.y_pos = s.a.y]

DeltasOf(s, dx, dy) == DeltaSteps(s, dx, dy, KMul(Exact(I64(2)), dx), KMul(Exact(I64(2)), dy))

Deltas64(s) ==
    IF s.st # "run" THEN s
    ELSE DeltasOf(s, KSub(Exact(s.b.x), Exact(s.a.x)), KSub(Exact(s.b.y), Exact(s.a.y)))

\* let mut error = delta_y_step - delta_x, bitmap.rs:417
ErrorSet(s, error) ==
    IF Overflowed(s, error.ovf) THEN Panics(s) ELSE [s EXCEPT !.error = error.v]

Error64(s) == ErrorSet(s, KSub(Exact(s.delta_y_step), Exact(s.delta_x)))

\* Line starts, bitmap.rs:434-446
BelowSet(s, rem, x, error) ==
    IF Overflowed(s, rem.ovf \/ x.ovf \/ error.ovf) THEN Panics(s)
    ELSE [s EXCEPT !.x_pos = x.v, !.y_pos = s.min.y, !.error = error.v, !.set_exit = TRUE]

BelowStarts(s, x, rem, error) ==
    IF WLt(I64Zero, rem.v)
    THEN BelowSet(s, rem, KAdd(x, Exact(I64(1))), KAdd(error, Exact(s.delta_y_step)))
    ELSE BelowSet(s, rem, x, error)

\* Line starts below the clip window, bitmap.rs:420-448
BelowFrom(s, temp, msd, x, rem) ==
    IF Overflowed(s, x.ovf) THEN Panics(s)
    ELSE IF ~WLt(x.v, s.max.x) THEN Returns(s)
    ELSE IF ~WLt(x.v, s.min.x)
    THEN BelowStarts(s, x, rem, KSub(Exact(s.error), KAdd(rem, Exact(s.delta_x))))
    ELSE [s EXCEPT !.x_pos = x.v]

BelowAt(s, temp, msd) ==
    BelowFrom(s, temp, msd, KAdd(Exact(s.x_pos), Exact(msd)),
              KSub(Exact(temp), KMul(Exact(msd), Exact(s.delta_y_step))))

BelowBy(s, temp) ==
    IF Overflowed(s, temp.ovf) \/ DivPanics(temp.v, s.delta_y_step) THEN Panics(s)
    ELSE BelowAt(s, temp.v, WDiv(temp.v, s.delta_y_step))

Below64(s) ==
    IF s.st = "run" /\ WLt(s.a.y, s.min.y)
    THEN BelowBy(s, KMul(KSub(KMul(Exact(I64(2)), KSub(Exact(s.min.y), Exact(s.a.y))),
                              Exact(I64(1))),
                         Exact(s.delta_x)))
    ELSE s

\* Line starts left of the clip window, bitmap.rs:450-472
LeftSet(s, y, error) ==
    IF Overflowed(s, y.ovf \/ error.ovf) THEN Panics(s)
    ELSE [s EXCEPT !.x_pos = s.min.x, !.y_pos = y.v, !.error = error.v]

LeftAt(s, y, rem) ==
    IF Overflowed(s, y.ovf) THEN Panics(s)
    ELSE IF WLt(s.max.y, y.v) \/ (y.v = s.max.y /\ ~WLt(rem, s.delta_x)) THEN Returns(s)
    ELSE IF ~WLt(rem, s.delta_x)
    THEN LeftSet(s, KAdd(y, Exact(I64(1))),
                 KSub(KAdd(Exact(s.error), Exact(rem)), Exact(s.delta_x_step)))
    ELSE LeftSet(s, y, KAdd(Exact(s.error), Exact(rem)))

LeftBy(s, temp) ==
    IF Overflowed(s, temp.ovf) \/ DivPanics(temp.v, s.delta_x_step) THEN Panics(s)
    ELSE LeftAt(s, KAdd(Exact(s.y_pos), Exact(WDiv(temp.v, s.delta_x_step))),
                WRem(temp.v, s.delta_x_step))

Left64(s) ==
    IF s.st = "run" /\ ~s.set_exit /\ WLt(s.a.x, s.min.x)
    THEN LeftBy(s, KMul(Exact(s.delta_y_step), KSub(Exact(s.min.x), Exact(s.a.x))))
    ELSE s

\* x_pos_end, bitmap.rs:474-487
EndSet(s, x, rem) ==
    IF Overflowed(s, x.ovf \/ rem.ovf) THEN Panics(s)
    ELSE [s EXCEPT !.x_pos_end = WMin(x.v, s.max.x)]

EndAt(s, x, rem) ==
    IF rem.v = I64Zero THEN EndSet(s, KSub(x, Exact(I64(1))), rem) ELSE EndSet(s, x, rem)

EndBy(s, temp) ==
    IF Overflowed(s, temp.ovf) \/ DivPanics(temp.v, s.delta_y_step) THEN Panics(s)
    ELSE EndAt(s, KAdd(Exact(s.a.x), Exact(WDiv(temp.v, s.delta_y_step))),
               KSub(Exact(temp.v),
                    KMul(Exact(WDiv(temp.v, s.delta_y_step)), Exact(s.delta_y_step))))

End64(s) ==
    IF s.st # "run" THEN s
    ELSE IF ~WLt(s.b.y, s.max.y)
    THEN EndBy(s, KAdd(KMul(Exact(s.delta_x_step), KSub(Exact(s.max.y), Exact(s.a.y))),
                       Exact(s.delta_x)))
    ELSE [s EXCEPT !.x_pos_end = WMin(s.b.x, s.max.x)]

\* the signs put back and delta_x_step -= delta_y_step, bitmap.rs:489-500
Inverted(v, sign) == IF sign = -1 THEN KNeg(Exact(v)) ELSE Exact(v)

SignsSet(s, x, y, end, step) ==
    IF Overflowed(s, x.ovf \/ y.ovf \/ end.ovf \/ step.ovf) THEN Panics(s)
    ELSE [s EXCEPT !.x_pos = x.v, !.y_pos = y.v, !.x_pos_end = end.v,
                   !.delta_x_step = step.v]

SignsBack(s) ==
    IF s.st # "run" THEN s
    ELSE SignsSet(s, Inverted(s.x_pos, s.sign_x), Inverted(s.y_pos, s.sign_y),
                  Inverted(s.x_pos_end, s.sign_x),
                  KSub(Exact(s.delta_x_step), Exact(s.delta_y_step)))

\* while x_pos != x_pos_end, bitmap.rs:502: the test before an iteration
While(s) ==
    IF s.st \notin {"run", "loop"} THEN s
    ELSE IF s.x_pos = s.x_pos_end THEN Returns(s)
    ELSE [s EXCEPT !.st = "loop"]

\* the start of the loop, kept for the properties
Entered(s) == IF s.st # "run" THEN s ELSE While([s EXCEPT !.entered = TRUE, !.start = s.x_pos])

\* delta_x >= delta_y, bitmap.rs:415-518, up to the loop
Shallow64(s) == Entered(SignsBack(End64(Left64(Below64(Error64(s))))))

Branch64(s) ==
    IF s.st # "run" THEN s
    ELSE IF ~WLt(s.delta_x, s.delta_y) THEN Shallow64(s)
    ELSE Shallow64(Transposed(s))

\* from the clipping checks on, bitmap.rs:349-623
SlantedLine64(s) == Branch64(Deltas64(ClipY64(ClipX64(s))))

\* the position passed to draw_pixel, bitmap.rs:504 and 609
PlotPos(s) == IF s.steep THEN Vec2(s.y_pos, s.x_pos) ELSE Vec2(s.x_pos, s.y_pos)

\* the body of the loop after draw_pixel, bitmap.rs:506-516
Stepped(s, x, y, error) ==
    IF Overflowed(s, x.ovf \/ y.ovf \/ error.ovf) THEN Panics(s)
    ELSE While([s EXCEPT !.x_pos = x.v, !.y_pos = y.v, !.error = error.v])

Body(s) ==
    IF ~IsNeg(s.error)
    THEN Stepped(s, KAdd(Exact(s.x_pos), Exact(I64(s.sign_x))),
                 KAdd(Exact(s.y_pos), Exact(I64(s.sign_y))),
                 KSub(Exact(s.error), Exact(s.delta_x_step)))
    ELSE Stepped(s, KAdd(Exact(s.x_pos), Exact(I64(s.sign_x))), Exact(s.y_pos),
                 KAdd(Exact(s.error), Exact(s.delta_y_step)))

\* one iteration of the loop, bitmap.rs:502-517
Plotted(s, d) ==
    IF d.status = "panic" THEN Panics([s EXCEPT !.calls = Append(s.calls, PlotPos(s))])
    ELSE Body([s EXCEPT !.inner = d.inner, !.calls = Append(s.calls, PlotPos(s))])

Iteration(s) == Plotted(s, draw_pixel64(s.inner, s.width, PlotPos(s), s.col, s.build))

\* a call of Bitmap::draw_line, bitmap.rs:265-274
Call64(bm, a, b, col, build) ==
    [a |-> a, b |-> b, min |-> Vec2(I64Zero, I64Zero), max |-> Vec2(I64(bm.size.w), I64(bm.size.h)),
     sign_x |-> 1, sign_y |-> 1, delta_x |-> I64Zero, delta_y |-> I64Zero,
     delta_x_step |-> I64Zero, delta_y_step |-> I64Zero, x_pos |-> I64Zero, y_pos |-> I64Zero,
     error |-> I64Zero, set_exit |-> FALSE, x_pos_end |-> I64Zero, steep |-> FALSE,
     entered |-> FALSE, start |-> I64Zero, st |-> "run", build |-> build,
     inner |-> bm.inner, width |-> bm.size.w, col |-> col, calls |-> <<>>]

\* Bitmap::draw_line up to its plotting loop: the simple cases and the
\* clipping, bitmap.rs:265-500
LineFrom64(s) ==
    IF s.a.x = s.b.x THEN VerticalLine64(s)
    ELSE IF s.a.y = s.b.y THEN HorizontalLine64(s)
    ELSE SlantedLine64(s)

draw_line64(bm, a, b, col, build) == LineFrom64(Call64(bm, a, b, col, build))

(***************************************************************************)
(* The line iterator, framework/src/util/bresenham.rs, on isize at its     *)
(* full width: a build with overflow checks panics at an overflow, one     *)
(* without them goes on with the wrapped value.                            *)
(***************************************************************************)
\* isize::abs and isize::signum
KAbs(a) == IF IsNeg(a.v) THEN KNeg(a) ELSE a

Signum64(v) == IF v = I64Zero THEN I64Zero ELSE IF IsNeg(v) THEN I64(-1) ELSE I64(1)

\* the fields of Bresenham::new, bresenham.rs:60-69
Fields64(a, b, dx, dy, de, steep, build, ovf) ==
    [cur |-> a, dx |-> dx.v, dy |-> Signum64(dy.v), e |-> I64Zero, de |-> de.v,
     steep |-> steep, end |-> b.x, build |-> build,
     st |-> IF build = "debug" /\ (ovf \/ dx.ovf \/ de.ovf) THEN "panic" ELSE "ok"]

\* let d = b - a, bresenham.rs:58
Delta64(a, b, dy, steep, build, ovf) ==
    Fields64(a, b, KSub(Exact(b.x), Exact(a.x)), dy, KMul(KAbs(dy), Exact(I64(2))),
             steep, build, ovf)

BresenhamFrom(a, b, steep, build, ovf) ==
    Delta64(a, b, KSub(Exact(b.y), Exact(a.y)), steep, build, ovf)

\* flip the x so that we always start with the lowest x, bresenham.rs:50-55
BresenhamOrdered(a, b, steep, build, ovf) ==
    IF WLt(b.x, a.x) THEN BresenhamFrom(b, a, steep, build, ovf)
    ELSE BresenhamFrom(a, b, steep, build, ovf)

\* adjust slope, bresenham.rs:38-48
BresenhamSloped(a, b, build, x, y) ==
    IF WLt(x.v, y.v) THEN BresenhamOrdered(Yx(a), Yx(b), TRUE, build, x.ovf \/ y.ovf)
    ELSE BresenhamOrdered(a, b, FALSE, build, x.ovf \/ y.ovf)

\* Bresenham::new
BresenhamNew(a, b, build) ==
    BresenhamSloped(a, b, build, KAbs(KSub(Exact(a.x), Exact(b.x))),
                    KAbs(KSub(Exact(a.y), Exact(b.y))))

\* the iterator after the increments e, y and x of one call of next
Stepped64(b, e, y, x) ==
    IF b.build = "debug" /\ (e.ovf \/ y.ovf \/ x.ovf) THEN [b EXCEPT !.st = "panic"]
    ELSE [b EXCEPT !.cur = Vec2(x.v, y.v), !.e = e.v]

\* increment slope error and x, bresenham.rs:91-99
BresenhamStep(b, e) ==
    IF WLt(b.dx, e.v)
    THEN Stepped64(b, KSub(e, KMul(Exact(b.dx), Exact(I64(2)))),
                   KAdd(Exact(b.cur.y), Exact(b.dy)), KAdd(Exact(b.cur.x), Exact(I64(1))))
    ELSE Stepped64(b, e, Exact(b.cur.y), KAdd(Exact(b.cur.x), Exact(I64(1))))

\* a call that panics returns nothing
Yielded64(b, s) ==
    [it |-> s, some |-> s.st = "ok", pt |-> IF b.steep THEN Yx(b.cur) ELSE b.cur]

\* the test of Bresenham::next, bresenham.rs:81
Done(b) == WLt(b.end, b.cur.x)

\* Bresenham::next: the iterator after the call and what the call returned
BresenhamNext(b) ==
    IF Done(b) THEN [it |-> b, some |-> FALSE, pt |-> b.cur]
    ELSE Yielded64(b, BresenhamStep(b, KAdd(Exact(b.e), Exact(b.de))))

(***************************************************************************)
(* draw::line, src/draw.rs: the points of the line that the bounded        *)
(* iterator lets through, each set in the frame.  The endpoints are        *)
(* Vec2<i32>, the iterator works on isize.                                 *)
(***************************************************************************)
\* an i32 endpoint as a Vec2<isize>, and a point of the iterator as a
\* position of the frame
Widen(p) == Vec2(I64(p.x), I64(p.y))

Narrow(p) == Vec2(AsInt(p.x), AsInt(p.y))

\* everything a Bresenham yields until it returns None or panics
RECURSIVE BresenhamCollect(_)
Collected(p, c) == [c EXCEPT !.pts = <<p>> \o @]

BresenhamRest(r) ==
    IF r.some THEN Collected(Narrow(r.pt), BresenhamCollect(r.it))
    ELSE [pts |-> <<>>, status |-> IF r.it.st = "panic" THEN "panic" ELSE "ok"]

BresenhamCollect(b) ==
    IF b.st = "panic" THEN [pts |-> <<>>, status |-> "panic"]
    ELSE BresenhamRest(BresenhamNext(b))

InFrame(p, size) == 0 <= p.x /\ p.x < size.w /\ 0 <= p.y /\ p.y < size.h

\* Bresenham::new_bounded(a, b, max): the points of the unclipped line, the
\* out-of-bounds ones discarded
Bounded(c, max) == [c EXCEPT !.pts = SelectSeq(@, LAMBDA p : InFrame(p, max))]

BresenhamBounded(a, b, max, build) ==
    Bounded(BresenhamCollect(BresenhamNew(Widen(a), Widen(b), build)), max)

\* the loop of draw::line over the points ps, from the i-th on
RECURSIVE SetAll(_, _, _, _, _)
SetAll(frame, ps, i, width, col) ==
    IF i > Len(ps) THEN frame
    ELSE SetAll(FrameSet(frame, ps[i], width, col), ps, i + 1, width, col)

\* draw::line: the frame after the call and the positions it set
LineOver(frame, c, size, col) ==
    [status |-> c.status, frame |-> SetAll(frame, c.pts, 1, size.w, col), calls |-> c.pts]

line(frame, size, a, b, col, build) ==
    LineOver(frame, BresenhamBounded(a, b, size, build), size, col)

(***************************************************************************)
(* State.  px and depth are the frame's pixels and the z-buffer; drawn is  *)
(* the list of triangles drawn since the last reset; last describes the    *)
(* last operation and, for a draw, the buffers before it; it and out are   *)
(* an iterator and what it has yielded so far; bmp is a Bitmap (its size    *)
(* and its bytes).                                                         *)
(***************************************************************************)
VARIABLES px, depth, drawn, last, it, out, bmp

vars == <<px, depth, drawn, last, it, out, bmp>>

Idle == [op |-> "none"]

(***************************************************************************)
(* One call of Bitmap::draw_bitmap on a blank destination.                 *)
(***************************************************************************)
InitBlit ==
    /\ px = <<>>
    /\ depth = <<>>
    /\ drawn = <<>>
    /\ last = Idle
    /\ it = <<>>
    /\ out = <<>>
    /\ bmp \in {Blank(w, h) : w \in Sides, h \in Sides}

DrawBitmap(src, pos, build) ==
    /\ last = Idle
    /\ \E r \in {draw_bitmap(bmp, src, pos, build)} :
           /\ bmp' = [bmp EXCEPT !.inner = r.inner]
           /\ last' = [op |-> "draw_bitmap", src |-> src, pos |-> pos, build |-> build,
                       status |-> r.status, inner0 |-> bmp.inner]
    /\ UNCHANGED <<px, depth, drawn, it, out>>

NextBlit ==
    \E w \in Sides, h \in Sides, x \in Offsets, y \in Offsets, build \in Builds :
        DrawBitmap(Source(w, h), [x |-> x, y |-> y], build)

SpecBlit == InitBlit /\ [][NextBlit]_vars

(***************************************************************************)
(* One line: Bresenham::new, then next until it returns None or panics,    *)
(* between points near the origin and points at the ends of isize.         *)
(***************************************************************************)
MaxCoord == 2

\* at most MaxPoints points of a line are followed
MaxPoints == 6

Coords == {I64(n) : n \in -MaxCoord .. MaxCoord}

Points == {Vec2(x, y) : x \in Coords, y \in Coords}

I64Max == WSub(I64Min, I64(1))

\* endpoints at the ends of the isize range, and one more than 2^62 from
\* the origin on both axes
FarPoints ==
    {Vec2(I64Zero, I64Min), Vec2(WSub(I64Max, I64(1)), I64Zero), Vec2(I64Max, I64Zero),
     Vec2(WAdd(Pow2(62), I64(1)), WAdd(Pow2(62), I64(1)))}

LinePoints == Points \cup FarPoints

InitBres ==
    /\ px = <<>>
    /\ depth = <<>>
    /\ drawn = <<>>
    /\ last = Idle
    /\ it = <<>>
    /\ out = <<>>
    /\ bmp = <<>>

NewLine(a, b, build) ==
    /\ last = Idle
    /\ it' = BresenhamNew(a, b, build)
    /\ out' = <<>>
    /\ last' = [op |-> "new", a |-> a, b |-> b, build |-> build, done |-> FALSE]
    /\ UNCHANGED <<px, depth, drawn, bmp>>

NextPoint ==
    /\ last # Idle
    /\ it.st = "ok"
    /\ ~last.done
    /\ Len(out) < MaxPoints
    /\ \E r \in {BresenhamNext(it)} :
           /\ it' = r.it
           /\ out' = IF r.some THEN Append(out, r.pt) ELSE out
           /\ last' = [last EXCEPT !.op = "next", !.done = ~r.some /\ r.it.st = "ok"]
    /\ UNCHANGED <<px, depth, drawn, bmp>>

NextBres ==
    \/ \E a \in LinePoints, b \in LinePoints, build \in Builds : NewLine(a, b, build)
    \/ NextPoint

SpecBres == InitBres /\ [][NextBres]_vars

(***************************************************************************)
(* One line on a blank bitmap, by Bitmap::draw_line or by draw::line.      *)
(***************************************************************************)
LineCoords == -MaxSide .. (2 * MaxSide)

LineEnds == {Vec2(x, y) : x \in LineCoords, y \in LineCoords}

BlankFrame(w, h) == [i \in 0 .. (w * h - 1) |-> Black]

InitLine ==
    /\ depth = <<>>
    /\ drawn = <<>>
    /\ last = Idle
    /\ it = <<>>
    /\ out = <<>>
    /\ \E w \in Sides, h \in Sides :
           /\ bmp = Blank(w, h)
           /\ px = BlankFrame(w, h)

DrawLine(a, b, build) ==
    /\ last = Idle
    /\ \E r \in {draw_line(bmp, a, b, White, build)} :
           /\ bmp' = [bmp EXCEPT !.inner = r.inner]
           /\ last' = [op |-> "draw_line", a |-> a, b |-> b, build |-> build,
                       status |-> r.status, calls |-> r.calls]
    /\ UNCHANGED <<px, depth, drawn, it, out>>

Line(a, b, build) ==
    /\ last = Idle
    /\ \E r \in {line(px, bmp.size, a, b, White, build)} :
           /\ px' = r.frame
           /\ last' = [op |-> "line", a |-> a, b |-> b, build |-> build,
                       status |-> r.status, calls |-> r.calls]
    /\ UNCHANGED <<bmp, depth, drawn, it, out>>

NextLine ==
    \/ \E a \in LineEnds, b \in LineEnds, build \in Builds : DrawLine(a, b, build)
    \/ \E a \in LineEnds, b \in LineEnds, build \in Builds : Line(a, b, build)

SpecLine == InitLine /\ [][NextLine]_vars

(***************************************************************************)
(* One triangle scan: Triangle::new_bounded, then next until it returns    *)
(* None.                                                                   *)
(***************************************************************************)
TriW == 2

TriH == 2

TriSize == [w |-> TriW, h |-> TriH]

\* vertices in the frame and one pixel outside it, on every side
TriVertices == {Vec2(x, y) : x \in -1 .. TriW, y \in -1 .. TriH}

InitTri ==
    /\ px = <<>>
    /\ depth = <<>>
    /\ drawn = <<>>
    /\ last = Idle
    /\ it = <<>>
    /\ out = <<>>
    /\ bmp = <<>>

NewBounded(pts, size) ==
    /\ last = Idle
    /\ it' = new_bounded(pts, size)
    /\ out' = <<>>
    /\ last' = [op |-> "new_bounded", pts |-> pts, size |-> size, done |-> FALSE]
    /\ UNCHANGED <<px, depth, drawn, bmp>>

NextPixel ==
    /\ last # Idle
    /\ ~last.done
    /\ \E r \in {TriangleNext(it)} :
           /\ it' = r.it
           /\ out' = IF r.some THEN Append(out, [pt |-> r.pt, br |-> r.br]) ELSE out
           /\ last' = [last EXCEPT !.op = "next", !.done = ~r.some]
    /\ UNCHANGED <<px, depth, drawn, bmp>>

NextTri ==
    \/ \E a \in TriVertices, b \in TriVertices, c \in TriVertices :
           NewBounded(<<a, b, c>>, TriSize)
    \/ NextPixel

SpecTri == InitTri /\ [][NextTri]_vars

(***************************************************************************)
(* One unbounded triangle scan: Triangle::new, then next until None.       *)
(***************************************************************************)
I32Max == 2147483647

\* Triangle::new, triangle.rs:56-59
new(pts) == new_bounded(pts, [w |-> I32Max, h |-> I32Max])

NewMax == 1

\* vertices at negative, zero and positive coordinates
NewVertices == {Vec2(x, y) : x \in -1 .. NewMax, y \in -1 .. NewMax}

New3(pts) ==
    /\ last = Idle
    /\ it' = new(pts)
    /\ out' = <<>>
    /\ last' = [op |-> "new", pts |-> pts, size |-> [w |-> I32Max, h |-> I32Max], done |-> FALSE]
    /\ UNCHANGED <<px, depth, drawn, bmp>>

NextTriNew ==
    \/ \E a \in NewVertices, b \in NewVertices, c \in NewVertices : New3(<<a, b, c>>)
    \/ NextPixel

SpecTriNew == InitTri /\ [][NextTriNew]_vars

(***************************************************************************)
(* One call of barycentric.                                                *)
(***************************************************************************)
BaryMaxX == 3

BaryMaxY == 2

BaryPoints == {Vec2(x, y) : x \in 0 .. BaryMaxX, y \in 0 .. BaryMaxY}

InitBary ==
    /\ px = <<>>
    /\ depth = <<>>
    /\ drawn = <<>>
    /\ last = Idle
    /\ it = <<>>
    /\ out = <<>>
    /\ bmp = <<>>

Barycentric(p, a, b, c) ==
    /\ last = Idle
    /\ last' = [op |-> "barycentric", p |-> p, pts |-> <<a, b, c>>,
                br |-> barycentric(p, a, b, c)]
    /\ UNCHANGED <<px, depth, drawn, it, out, bmp>>

NextBary ==
    \E p \in BaryPoints, a \in BaryPoints, b \in BaryPoints, c \in BaryPoints :
        Barycentric(p, a, b, c)

SpecBary == InitBary /\ [][NextBary]_vars

(***************************************************************************)
(* The pixel iterators of Bitmap and Frame, framework/src/bitmap.rs and    *)
(* framework/src/frame.rs: enumerate over the pixels in memory order,      *)
(* mapped to (position, pixel).  A pixel is named by its byte offset.      *)
(***************************************************************************)
IterSide == 3

IterSizes == {[w |-> w, h |-> h] : w \in 0 .. IterSide, h \in 0 .. IterSide}

\* iter_pixels, iter_pixels_mut on Bitmap and on Frame: the same closure
IterOps == {"iter_pixels", "iter_pixels_mut"}

IterOwners == {"Bitmap", "Frame"}

\* the closure of map: (i % w, i / h), bitmap.rs:124, frame.rs:46
PixelCoord(i, w, h) == Vec2(i % w, i \div h)

\* self.pixels().iter().enumerate(): the index of the next pixel and the
\* number of pixels
iter_pixels(size) == [i |-> 0, n |-> size.w * size.h, w |-> size.w, h |-> size.h]

\* one item: the position the closure computes and the pixel enumerate gave
IterItem(t) == [pos |-> PixelCoord(t.i, t.w, t.h), off |-> t.i * 4]

\* Iterator::next of the mapped enumerate
IterNext(t) ==
    IF t.i < t.n
    THEN [it |-> [t EXCEPT !.i = t.i + 1], some |-> TRUE, item |-> <<IterItem(t)>>]
    ELSE [it |-> t, some |-> FALSE, item |-> <<>>]

InitIter ==
    /\ px = <<>>
    /\ depth = <<>>
    /\ drawn = <<>>
    /\ last = Idle
    /\ it = <<>>
    /\ out = <<>>
    /\ bmp = <<>>

IterPixels(size, op, owner) ==
    /\ last = Idle
    /\ bmp' = Blank(size.w, size.h)
    /\ it' = iter_pixels(size)
    /\ out' = <<>>
    /\ last' = [op |-> op, owner |-> owner, size |-> size, done |-> FALSE]
    /\ UNCHANGED <<px, depth, drawn>>

NextItem ==
    /\ last # Idle
    /\ ~last.done
    /\ \E r \in {IterNext(it)} :
           /\ it' = r.it
           /\ out' = out \o r.item
           /\ last' = [last EXCEPT !.done = ~r.some]
    /\ UNCHANGED <<px, depth, drawn, bmp>>

NextIter ==
    \/ \E size \in IterSizes, op \in IterOps, owner \in IterOwners : IterPixels(size, op, owner)
    \/ NextItem

SpecIter == InitIter /\ [][NextIter]_vars

(***************************************************************************)
(* One call of Bitmap::draw_pixel.                                         *)
(***************************************************************************)
PixelSides == 0 .. MaxSide

\* positions in the bitmap and up to MaxSide + 1 pixels outside it
PixelCoords == -(MaxSide + 1) .. (MaxSide + 1)

InitPixel ==
    /\ px = <<>>
    /\ depth = <<>>
    /\ drawn = <<>>
    /\ last = Idle
    /\ it = <<>>
    /\ out = <<>>
    /\ \E w \in PixelSides, h \in PixelSides : bmp = Blank(w, h)

DrawPixel(pos, build) ==
    /\ last = Idle
    /\ \E r \in {draw_pixel(bmp.inner, bmp.size.w, pos, White, build)} :
           /\ bmp' = [bmp EXCEPT !.inner = r.inner]
           /\ last' = [op |-> "draw_pixel", pos |-> pos, build |-> build, status |-> r.status]
    /\ UNCHANGED <<px, depth, drawn, it, out>>

NextPixelCall ==
    \E x \in PixelCoords, y \in PixelCoords, build \in Builds : DrawPixel(Vec2(x, y), build)

SpecPixel == InitPixel /\ [][NextPixelCall]_vars

(***************************************************************************)
(* Bitmap::new and Frame::new, then one draw on what was constructed.      *)
(***************************************************************************)
\* buffer lengths up to one pixel more than the largest bitmap
BufLens == 0 .. (MaxSide * MaxSide * 4 + 4)

Owners == {"Bitmap", "Frame"}

\* debug_assert_eq!(len % 4, 0); debug_assert_eq!(len / 4, w * h):
\* compiled with debug assertions only, bitmap.rs:27-28, frame.rs:21-22
NewAsserts(len, size, build) ==
    build = "debug" => (len % 4 = 0 /\ len \div 4 = size.w * size.h)

\* Bitmap::new, Frame::new: the status of the call and what it returned
BitmapNew(len, size, build) ==
    IF NewAsserts(len, size, build)
    THEN [status |-> "ok", bitmap |-> [size |-> size, inner |-> [i \in 0 .. (len - 1) |-> 0]]]
    ELSE [status |-> "panic", bitmap |-> <<>>]

InitNew ==
    /\ px = <<>>
    /\ depth = <<>>
    /\ drawn = <<>>
    /\ last = Idle
    /\ it = <<>>
    /\ out = <<>>
    /\ bmp = <<>>

New(owner, len, size, build) ==
    /\ last = Idle
    /\ \E r \in {BitmapNew(len, size, build)} :
           /\ bmp' = r.bitmap
           /\ last' = [op |-> "new", owner |-> owner, len |-> len, size |-> size,
                       build |-> build, status |-> r.status]
    /\ UNCHANGED <<px, depth, drawn, it, out>>

\* a draw_pixel on the bitmap constructed
DrawOnNew(pos) ==
    /\ last # Idle
    /\ last.op = "new"
    /\ last.status = "ok"
    /\ \E r \in {draw_pixel(bmp.inner, bmp.size.w, pos, White, last.build)} :
           /\ bmp' = [bmp EXCEPT !.inner = r.inner]
           /\ last' = [last EXCEPT !.op = "drawn"]
    /\ UNCHANGED <<px, depth, drawn, it, out>>

NextNew ==
    \/ \E owner \in Owners, len \in BufLens, w \in PixelSides, h \in PixelSides, build \in Builds :
           New(owner, len, [w |-> w, h |-> h], build)
    \/ \E x \in 0 .. MaxSide, y \in 0 .. MaxSide : DrawOnNew(Vec2(x, y))

SpecNew == InitNew /\ [][NextNew]_vars

(***************************************************************************)
(* frame.par_iter_pixels_mut().for_each(closure) in render, app.rs:18-24.  *)
(* The pixels are handed out to the workers of the pool one piece at a     *)
(* time, each pixel to one worker; a worker runs the closure on its pixel  *)
(* one assignment at a time.                                               *)
(***************************************************************************)
ParSide == 2

ParWorkers == 2

Workers == 1 .. ParWorkers

\* frames of one or two rows
ParSizes == {[w |-> w, h |-> h] : w \in 1 .. ParSide, h \in 1 .. 2}

Free == [pix |-> -1, step |-> 0]

\* every channel set to 0xff
ChannelOpaque(k) == 255

\* px.r = 0x00; px.g = 0x00; px.b = 0x00; px.a = 0xff, app.rs:20-23
ClearedChannel(k) == IF k = 4 THEN 255 ELSE 0

\* the frame before the reset: no pixel is (0, 0, 0, 255)
DirtyFrame(size) == [i \in 0 .. (size.w * size.h - 1) |-> <<7, 7, 7, 7>>]

\* the item of the parallel iterator for pixel i: the same closure as the
\* sequential one, frame.rs:118-122
ParItem(i, size) == [pos |-> PixelCoord(i, size.w, size.h), off |-> i * 4]

InitPar ==
    /\ depth = <<>>
    /\ drawn = <<>>
    /\ bmp = <<>>
    /\ \E size \in ParSizes :
           /\ last = [op |-> "par_iter_pixels_mut", size |-> size]
           /\ px = DirtyFrame(size)
           /\ it = [pending |-> 0 .. (size.w * size.h - 1), busy |-> [w \in Workers |-> Free]]
           /\ out = [i \in 0 .. (size.w * size.h - 1) |-> <<>>]

\* worker w is handed pixel i
Take(w, i) ==
    /\ it.busy[w] = Free
    /\ i \in it.pending
    /\ it' = [pending |-> it.pending \ {i}, busy |-> [it.busy EXCEPT ![w] = [pix |-> i, step |-> 1]]]
    /\ out' = [out EXCEPT ![i] = Append(@, ParItem(i, last.size))]
    /\ UNCHANGED <<px, depth, drawn, last, bmp>>

\* worker w runs the next assignment of the closure on its pixel
Assign(w) ==
    /\ it.busy[w] # Free
    /\ px' = [px EXCEPT ![it.busy[w].pix][it.busy[w].step] = ClearedChannel(it.busy[w].step)]
    /\ it' = [it EXCEPT !.busy[w] = IF it.busy[w].step = 4 THEN Free
                                     ELSE [it.busy[w] EXCEPT !.step = @ + 1]]
    /\ UNCHANGED <<depth, drawn, last, out, bmp>>

NextPar ==
    \/ \E w \in Workers, i \in 0 .. (ParSide * 2 - 1) : Take(w, i)
    \/ \E w \in Workers : Assign(w)

SpecPar == InitPar /\ [][NextPar]_vars

(***************************************************************************)
(* Varying::interpolate, src/shader.rs:54-107.  A colour is the sequence   *)
(* of its channels.                                                        *)
(***************************************************************************)
\* the weighted sum with the first weight left out
DotSlip(x, y, z, bar) ==
    FAdd(FAdd(FMul(x, bar.y), FMul(y, bar.y)), FMul(z, bar.z))

\* Vec3::new(x, y, z).dot(bar): x * bar.x + y * bar.y + z * bar.z
DotBar(x, y, z, bar) ==
    FAdd(FAdd(FMul(x, bar.x), FMul(y, bar.y)), FMul(z, bar.z))

\* `as u8` on an f32: truncates toward zero and saturates, NaN gives 0
F32ToU8(x) ==
    IF x.k = "nan" THEN 0
    ELSE IF x.s = 1 THEN 0
    ELSE IF x.k = "inf" \/ x.e > 8 THEN 255
    ELSE IF Truncated(x) > 255 THEN 255
    ELSE Truncated(x)

\* impl Varying for f32, shader.rs:61-67
InterpolateF32(tri, bar) == DotBar(tri[1], tri[2], tri[3], bar)

\* impl Varying for Rgba<f32> and for Rgb<f32>, shader.rs:69-81, 89-100
InterpolateColour(tri, bar) ==
    [ch \in DOMAIN tri[1] |-> DotBar(tri[1][ch], tri[2][ch], tri[3][ch], bar)]

\* tri.map(|n| n.as_()): every channel of every vertex as f32
Promoted(tri) == [i \in 1 .. 3 |-> [ch \in DOMAIN tri[i] |-> FromInt(tri[i][ch])]]

Demoted(col) == [ch \in DOMAIN col |-> F32ToU8(col[ch])]

\* impl Varying for Rgba<u8> and for Rgb<u8>, shader.rs:83-87, 103-107
InterpolateBytes(tri, bar) == Demoted(InterpolateColour(Promoted(tri), bar))

interpolate(type, tri, bar) ==
    IF type = "f32" THEN InterpolateF32(tri, bar)
    ELSE IF type \in {"Rgba<f32>", "Rgb<f32>"} THEN InterpolateColour(tri, bar)
    ELSE InterpolateBytes(tri, bar)

VaryingTypes == {"f32", "Rgba<f32>", "Rgba<u8>", "Rgb<f32>", "Rgb<u8>"}

FTenth == FDiv(FOne, FromInt(10))

\* f32 values: zero, exact and inexact fractions, the largest magnitudes,
\* the infinities and NaN
Floats == {FZero, FOne, FNeg(FHalf(1)), FTenth, F32Min, FInf(0), FInf(1), FNaN}

FloatColours ==
    {<<FZero, FOne, FTenth, FOne>>, <<FOne, FHalf(1), FZero, FTenth>>,
     <<FTenth, FZero, FInf(0), FOne>>, <<FNeg(FHalf(1)), FNaN, FOne, FZero>>}

ByteColours == {Black, Red, <<1, 128, 254, 0>>, <<200, 100, 50, 25>>}

Rgb(c) == <<c[1], c[2], c[3]>>

ValuesOf(type) ==
    IF type = "f32" THEN Floats
    ELSE IF type = "Rgba<f32>" THEN FloatColours
    ELSE IF type = "Rgb<f32>" THEN {Rgb(c) : c \in FloatColours}
    ELSE IF type = "Rgba<u8>" THEN ByteColours
    ELSE {Rgb(c) : c \in ByteColours}

\* the weights at the three vertices, at the middle of an edge and at a
\* point inside
Weights ==
    {Vec3(FOne, FZero, FZero), Vec3(FZero, FOne, FZero), Vec3(FZero, FZero, FOne),
     Vec3(FHalf(1), FHalf(1), FZero), Vec3(FHalf(1), FDiv(FOne, FromInt(4)), FDiv(FOne, FromInt(4)))}

InitVary ==
    /\ px = <<>>
    /\ depth = <<>>
    /\ drawn = <<>>
    /\ last = Idle
    /\ it = <<>>
    /\ out = <<>>
    /\ bmp = <<>>

Interpolate(type, tri, bar) ==
    /\ last = Idle
    /\ last' = [op |-> "interpolate", type |-> type, tri |-> tri, bar |-> bar,
                result |-> interpolate(type, tri, bar)]
    /\ UNCHANGED <<px, depth, drawn, it, out, bmp>>

NextVary ==
    \E type \in VaryingTypes, bar \in Weights :
        \E v0 \in ValuesOf(type), v1 \in ValuesOf(type), v2 \in ValuesOf(type) :
            Interpolate(type, <<v0, v1, v2>>, bar)

SpecVary == InitVary /\ [][NextVary]_vars

(***************************************************************************)
(* One frame of MyApp::render: the reset and the triangle draws.           *)
(***************************************************************************)
InitDraw ==
    /\ px = ClearedFrame
    /\ depth = ClearedDepth
    /\ drawn = <<>>
    /\ last = [op |-> "render"]
    /\ it = <<>>
    /\ out = <<>>
    /\ bmp = <<>>

\* the start of the next frame, app.rs:17-26
Render ==
    /\ drawn # <<>>
    /\ px' = ClearedFrame
    /\ depth' = ClearedDepth
    /\ drawn' = <<>>
    /\ last' = [op |-> "render"]
    /\ UNCHANGED <<it, out, bmp>>

\* one call of draw::triangle, draw.rs:23-49
Triangle(t, col) ==
    /\ Len(drawn) < MaxDraws
    /\ \E r \in {triangle(px, depth, t, col)} :
           /\ px' = r.px
           /\ depth' = r.depth
    /\ drawn' = Append(drawn, [tri |-> t, col |-> col])
    /\ last' = [op |-> "triangle", tri |-> t, col |-> col, px0 |-> px, depth0 |-> depth]
    /\ UNCHANGED <<it, out, bmp>>

NextDraw ==
    \/ Render
    \/ \E t \in TriNames, col \in Palette : Triangle(t, col)

SpecDraw == InitDraw /\ [][NextDraw]_vars

(***************************************************************************)
(* Triangles and lines drawn into one frame with its depth buffer.         *)
(***************************************************************************)
\* a diagonal through the frame from outside it, and one across it
FrameLines ==
    {<<Vec2(-1, -1), Vec2(FrameW, FrameH)>>, <<Vec2(0, FrameH - 1), Vec2(FrameW - 1, 0)>>}

\* one call of draw::line, draw.rs:9-19
LineOn(a, b, col, build) ==
    /\ Len(drawn) < MaxDraws
    /\ \E r \in {line(px, FrameSize, a, b, col, build)} : px' = r.frame
    /\ drawn' = Append(drawn, [line |-> <<a, b>>, col |-> col])
    /\ last' = [op |-> "line", a |-> a, b |-> b, col |-> col, px0 |-> px, depth0 |-> depth]
    /\ UNCHANGED <<depth, it, out, bmp>>

\* the triangles drawn together with lines: flat and sloped depths, in the
\* frame and across its top left corner
FrameTris == {t \in TriNames : t.s # 3 /\ t.a.x <= 0 /\ t.z # <<10, 10, 10>>}

NextFrame ==
    \/ \E t \in FrameTris, col \in Palette : Triangle(t, col)
    \/ \E l \in FrameLines, build \in Builds : LineOn(l[1], l[2], White, build)

SpecFrame == InitDraw /\ [][NextFrame]_vars

(***************************************************************************)
(* One call of Bitmap::draw_line with endpoints near the bitmap and far    *)
(* from it, an iteration of its plotting loop at a time.                   *)
(***************************************************************************)
\* the far coordinates are 2^FarBit and -2^FarBit
FarBit == 32

\* at most MaxIterations iterations of a loop are followed
MaxIterations == 3

NearCoords == {I64(n) : n \in -1 .. MaxSide}

FarCoords == {Pow2(FarBit), WNeg(Pow2(FarBit))}

Ends64 == {Vec2(x, y) : x \in NearCoords \cup FarCoords, y \in NearCoords \cup FarCoords}

InitClip ==
    /\ px = <<>>
    /\ depth = <<>>
    /\ drawn = <<>>
    /\ last = Idle
    /\ it = <<>>
    /\ out = <<>>
    /\ bmp \in {Blank(w, h) : w \in Sides, h \in Sides}

\* the call up to the first test of its plotting loop
DrawLine64(a, b, build) ==
    /\ last = Idle
    /\ \E s \in {draw_line64(bmp, a, b, White, build)} :
           /\ it' = s
           /\ bmp' = [bmp EXCEPT !.inner = s.inner]
    /\ last' = [op |-> "draw_line", a |-> a, b |-> b, build |-> build]
    /\ UNCHANGED <<px, depth, drawn, out>>

\* one iteration of the plotting loop and the test after it
Iterate ==
    /\ last # Idle
    /\ it.st = "loop"
    /\ Len(it.calls) < MaxIterations
    /\ \E s \in {Iteration(it)} :
           /\ it' = s
           /\ bmp' = [bmp EXCEPT !.inner = s.inner]
    /\ UNCHANGED <<px, depth, drawn, last, out>>

NextClip ==
    \/ \E a \in Ends64, b \in Ends64, build \in Builds : DrawLine64(a, b, build)
    \/ Iterate

SpecClip == InitClip /\ [][NextClip]_vars

(***************************************************************************)
(* One pair of endpoints in both orders: Bresenham::new(a, b) is iterator  *)
(* 1 and Bresenham::new(b, a) is iterator 2, each followed by its calls of *)
(* next.                                                                   *)
(***************************************************************************)
MaxNear == 1

\* at most MaxYields points of an iterator are followed
MaxYields == 4

Orders == {1, 2}

PairCoords == {I64(n) : n \in -MaxNear .. MaxNear} \cup {I64Min}

PairPoints == {Vec2(x, y) : x \in PairCoords, y \in PairCoords}

InitPair ==
    /\ px = <<>>
    /\ depth = <<>>
    /\ drawn = <<>>
    /\ last = Idle
    /\ it = <<>>
    /\ out = <<>>
    /\ bmp = <<>>

NewPair(a, b, build) ==
    /\ last = Idle
    /\ it' = <<BresenhamNew(a, b, build), BresenhamNew(b, a, build)>>
    /\ out' = <<<<>>, <<>>>>
    /\ last' = [op |-> "new", a |-> a, b |-> b, build |-> build, done |-> <<FALSE, FALSE>>]
    /\ UNCHANGED <<px, depth, drawn, bmp>>

NextOf(k) ==
    /\ last # Idle
    /\ it[k].st = "ok"
    /\ ~last.done[k]
    /\ Len(out[k]) < MaxYields
    /\ \E r \in {BresenhamNext(it[k])} :
           /\ it' = [it EXCEPT ![k] = r.it]
           /\ out' = [out EXCEPT ![k] = IF r.some THEN Append(@, r.pt) ELSE @]
           /\ last' = [last EXCEPT !.op = "next", !.done[k] = ~r.some /\ r.it.st = "ok"]
    /\ UNCHANGED <<px, depth, drawn, bmp>>

NextPair ==
    \/ \E a \in PairPoints, b \in PairPoints, build \in Builds : NewPair(a, b, build)
    \/ \E k \in Orders : NextOf(k)

SpecPair == InitPair /\ [][NextPair]_vars

(***************************************************************************)
(* Properties of the depth-buffered draw.                                  *)
(***************************************************************************)
\* the depth-buffer index of a pixel, y * width + x
IndexOf(pt) == pt.y * FrameW + pt.x

\* the fragments of the triangle of the last draw
LastFragments == FragmentsOf[last.tri]

LastRange == 1 .. Len(LastFragments)

\* C1: in draw::triangle, for every in-frame pixel the triangle covers: if
\* the interpolated z is strictly greater than the depth entry at
\* y * width + x before the draw, the entry becomes that z and the pixel the
\* fill colour; otherwise neither the entry nor the pixel changes.
C1_DepthTestContract ==
    last.op = "triangle" =>
        \A j \in LastRange :
            IF FLt(last.depth0[IndexOf(LastFragments[j].pt)], LastFragments[j].z)
            THEN /\ depth[IndexOf(LastFragments[j].pt)] = LastFragments[j].z
                 /\ px[IndexOf(LastFragments[j].pt)] = last.col
            ELSE /\ depth[IndexOf(LastFragments[j].pt)]
                        = last.depth0[IndexOf(LastFragments[j].pt)]
                 /\ px[IndexOf(LastFragments[j].pt)]
                        = last.px0[IndexOf(LastFragments[j].pt)]

\* a draw that wrote one fragment over a pixel of another colour and
\* rejected another fragment
C1_Witness ==
    /\ last.op = "triangle"
    /\ \E j \in LastRange :
           /\ FLt(last.depth0[IndexOf(LastFragments[j].pt)], LastFragments[j].z)
           /\ last.px0[IndexOf(LastFragments[j].pt)] \notin {Black, last.col}
    /\ \E j \in LastRange :
           /\ ~FLt(last.depth0[IndexOf(LastFragments[j].pt)], LastFragments[j].z)
           /\ last.px0[IndexOf(LastFragments[j].pt)] # last.col

\* the z of triangle t's fragment at pixel index i (t covers i)
ZAt(t, i) ==
    FragmentsOf[t][CHOOSE j \in 1 .. Len(FragmentsOf[t]) :
                       IndexOf(FragmentsOf[t][j].pt) = i].z

Covered(t) == {IndexOf(FragmentsOf[t][j].pt) : j \in 1 .. Len(FragmentsOf[t])}

Overlap(t, u) == Covered(t) \cap Covered(u)

\* the two triangles have different depths wherever both cover a pixel
DepthsDiffer(t, u) == \A i \in Overlap(t, u) : ZAt(t, i) # ZAt(u, i)

\* two draws, d then e, on a cleared frame and a depth buffer of sentinels
DrawSecond(r, e) == triangle(r.px, r.depth, e.tri, e.col)

DrawBoth(d, e) == DrawSecond(triangle(ClearedFrame, ClearedDepth, d.tri, d.col), e)

TwoOverlapping ==
    /\ Len(drawn) = 2
    /\ Overlap(drawn[1].tri, drawn[2].tri) # {}
    /\ DepthsDiffer(drawn[1].tri, drawn[2].tri)

\* C2: from a cleared frame and a depth buffer of sentinels, two overlapping
\* triangles of different depths give the same pixel buffer in both draw
\* orders, and every pixel of the overlap has the colour of the triangle
\* with the greater z.
C2_OrderIndependent ==
    TwoOverlapping =>
        /\ px = DrawBoth(drawn[2], drawn[1]).px
        /\ \A i \in Overlap(drawn[1].tri, drawn[2].tri) :
               px[i] = IF FLt(ZAt(drawn[1].tri, i), ZAt(drawn[2].tri, i))
                       THEN drawn[2].col ELSE drawn[1].col

\* two overlapping triangles of different colours, the first drawn the closer
\* one at some pixel of the overlap
C2_Witness ==
    /\ TwoOverlapping
    /\ drawn[1].col # drawn[2].col
    /\ \E i \in Overlap(drawn[1].tri, drawn[2].tri) :
           FLt(ZAt(drawn[2].tri, i), ZAt(drawn[1].tri, i))
    /\ Covered(drawn[2].tri) \ Covered(drawn[1].tri) # {}

\* drawing t in colour col again, right after r was drawn, changes nothing
SameAgain(r, t, col) == triangle(r.px, r.depth, t, col) = r

Idempotent ==
    \A t \in TriNames, col \in Palette : SameAgain(triangle(px, depth, t, col), t, col)

\* C3, as amended: from any state of the two buffers, drawing the same
\* triangle twice in a row leaves the buffers as drawing it once does; the
\* second draw writes nothing because after the first no fragment has z
\* strictly greater than the stored value.
C3_Idempotent ==
    /\ Idempotent
    /\ last.op = "triangle" =>
           \A j \in LastRange :
               ~FLt(depth[IndexOf(LastFragments[j].pt)], LastFragments[j].z)

\* C3 as stated: ... the second draw writes nothing because every fragment
\* has z equal to the stored value.
C3_AsStated ==
    /\ Idempotent
    /\ last.op = "triangle" =>
           \A j \in LastRange :
               depth[IndexOf(LastFragments[j].pt)] = LastFragments[j].z

\* the same triangle drawn twice in a row: the first draw wrote pixels, the
\* second changed neither buffer
C3_Witness ==
    /\ last.op = "triangle"
    /\ Len(drawn) >= 2
    /\ drawn[Len(drawn)] = drawn[Len(drawn) - 1]
    /\ px = last.px0
    /\ depth = last.depth0
    /\ px # ClearedFrame

\* the z of every fragment drawn so far this frame at pixel index i
DrawnZ(i) ==
    {ZAt(drawn[k].tri, i) : k \in {n \in 1 .. Len(drawn) : i \in Covered(drawn[n].tri)}}

Greatest(zs) == CHOOSE z \in zs : \A y \in zs : ~FLt(z, y)

\* C4: after any sequence of draws in one frame, every depth entry is the
\* maximum z over the fragments drawn so far that cover its pixel, or the
\* sentinel f32::MIN if none did; no entry decreases across a draw.
C4_DepthIsMax ==
    /\ \A i \in Pixels :
           depth[i] = IF DrawnZ(i) = {} THEN F32Min ELSE Greatest(DrawnZ(i))
    /\ last.op = "triangle" => \A i \in Pixels : ~FLt(depth[i], last.depth0[i])

\* two draws: a pixel where the first, closer fragment stays, a pixel the
\* second raises, and a pixel nothing covers
C4_Witness ==
    /\ Len(drawn) = 2
    /\ \E i \in Overlap(drawn[1].tri, drawn[2].tri) :
           /\ FLt(ZAt(drawn[2].tri, i), ZAt(drawn[1].tri, i))
           /\ depth[i] = ZAt(drawn[1].tri, i)
    /\ \E i \in Pixels : FLt(last.depth0[i], depth[i]) /\ last.depth0[i] # F32Min
    /\ \E i \in Pixels : depth[i] = F32Min

(***************************************************************************)
(* Properties of the blit.                                                 *)
(***************************************************************************)
\* source column or row for a destination one: x - dx
SrcCoord(x, d) == BSub(Small(x), d)

InSrc(c, n) == c.k = 0 /\ 0 <= c.r /\ c.r < n

\* what the destination byte c of pixel (x, y) is to be after the call
BlitExpected(x, y, c) ==
    IF /\ InSrc(SrcCoord(x, last.pos.x), last.src.size.w)
       /\ InSrc(SrcCoord(y, last.pos.y), last.src.size.h)
    THEN last.src.inner[(SrcCoord(y, last.pos.y).r * last.src.size.w
                            + SrcCoord(x, last.pos.x).r) * 4 + c]
    ELSE last.inner0[(y * bmp.size.w + x) * 4 + c]

BlitClipped ==
    /\ last.status = "ok"
    /\ \A x \in 0 .. (bmp.size.w - 1), y \in 0 .. (bmp.size.h - 1), c \in 0 .. 3 :
           bmp.inner[(y * bmp.size.w + x) * 4 + c] = BlitExpected(x, y, c)

\* C5: for every source size, destination size and signed offset, the call
\* completes without an out-of-range slice access, and afterwards each
\* destination pixel (x, y) is source pixel (x - dx, y - dy) where that is a
\* pixel of the source and is unchanged elsewhere.
C5_BlitClips == last.op = "draw_bitmap" => BlitClipped

\* the same for the offsets that put the source within a few pixels of the
\* destination, on any side: there the code does as C5 says
C5_NearOffsets ==
    (last.op = "draw_bitmap" /\ last.pos.x.k = 0 /\ last.pos.y.k = 0) => BlitClipped

\* a call that panicked in both builds' arithmetic range: dy = isize::MAX
C5_Panics ==
    /\ last.op = "draw_bitmap"
    /\ last.status = "panic"
    /\ last.pos.x = Small(0)
    /\ last.pos.y = IsizeMax

\* a partial copy at a negative and a positive offset
C5_Partial ==
    /\ last.op = "draw_bitmap"
    /\ last.status = "ok"
    /\ last.pos = [x |-> Small(-1), y |-> Small(1)]
    /\ bmp.inner # last.inner0
    /\ \E i \in DOMAIN bmp.inner : bmp.inner[i] = 0

(***************************************************************************)
(* Properties of the line iterator.                                        *)
(***************************************************************************)
\* |a - b| of two isize values, an unsigned value of 64 bits
Dist(a, b) == IF WLt(a, b) THEN WSub(b, a) ELSE WSub(a, b)

UMax(a, b) == IF ULt(a, b) THEN b ELSE a

\* max(|a.x - b.x|, |a.y - b.y|): the number of points of the line less one
LineSteps(a, b) == UMax(Dist(a.x, b.x), Dist(a.y, b.y))

Yielded == {out[i] : i \in 1 .. Len(out)}

\* both endpoints are on the grid of the model
NearLine == last # Idle /\ last.a \in Points /\ last.b \in Points

\* no call panicked, no more than max(|dx|, |dy|) + 1 points were yielded,
\* and at the None they are that many, a and b among them
EndpointsAndLength ==
    /\ it.st = "ok"
    /\ Len(out) > 0 => ~ULt(LineSteps(last.a, last.b), FromNat(Len(out) - 1))
    /\ last.done =>
           /\ Len(out) > 0
           /\ LineSteps(last.a, last.b) = FromNat(Len(out) - 1)
           /\ last.a \in Yielded
           /\ last.b \in Yielded

\* C6: the sequence yielded by Bresenham::new(a, b) contains a and b and has
\* exactly max(|a.x - b.x|, |a.y - b.y|) + 1 points (one when a = b), after
\* which next() returns None.
C6_EndpointsAndLength == last # Idle => EndpointsAndLength

\* the same for the lines between the points of the grid
C6_NearLines == NearLine => EndpointsAndLength

\* a release build of the line from (0, 0) to (0, isize::MIN), run to its
\* None: it yielded (0, 0) and nothing else
C6_EndMissed ==
    /\ last # Idle
    /\ last.build = "release"
    /\ last.a = Vec2(I64Zero, I64Zero)
    /\ last.b = Vec2(I64Zero, I64Min)
    /\ last.done
    /\ out = <<last.a>>

\* a debug build of the same line: Bresenham::new panicked
C6_NewPanics ==
    /\ last # Idle
    /\ last.build = "debug"
    /\ last.a = Vec2(I64Zero, I64Zero)
    /\ last.b = Vec2(I64Zero, I64Min)
    /\ it.st = "panic"
    /\ out = <<>>

\* a steep line of the grid from its upper end to its lower end, run to its
\* None
C6_NearWhole ==
    /\ NearLine
    /\ last.done
    /\ it.steep
    /\ WLt(I64(1), WSub(last.a.y, last.b.y))
    /\ last.a.x # last.b.x
    /\ FromNat(Len(out) - 1) = WSub(last.a.y, last.b.y)

\* consecutive points differ by at most 1 in x and in y and are not equal,
\* and no point occurs twice
Connected ==
    /\ \A i \in 1 .. (Len(out) - 1) :
           /\ ~ULt(I64(1), Dist(out[i + 1].x, out[i].x))
           /\ ~ULt(I64(1), Dist(out[i + 1].y, out[i].y))
           /\ out[i + 1] # out[i]
    /\ \A i \in 1 .. Len(out), j \in 1 .. Len(out) : out[i] = out[j] => i = j

\* C7: two consecutive points yielded differ by at most 1 in x and at most 1
\* in y and are not equal, and no point is yielded twice.
C7_Connected == last # Idle => Connected

\* the same for the lines between the points of the grid
C7_NearLines == NearLine => Connected

\* a release build of the line from (isize::MAX - 1, 0) to (isize::MAX, 0):
\* after both endpoints it yields (isize::MIN, 0) and goes on
C7_Jumps ==
    /\ last # Idle
    /\ last.build = "release"
    /\ last.a = Vec2(WSub(I64Max, I64(1)), I64Zero)
    /\ last.b = Vec2(I64Max, I64Zero)
    /\ Len(out) = MaxPoints
    /\ ~last.done
    /\ out[2] = last.b
    /\ out[3] = Vec2(I64Min, I64Zero)

\* a debug build of the same line: the call of next that yields
\* (isize::MAX, 0) panics at cur.x += 1
C7_NextPanics ==
    /\ last # Idle
    /\ last.build = "debug"
    /\ last.a = Vec2(WSub(I64Max, I64(1)), I64Zero)
    /\ last.b = Vec2(I64Max, I64Zero)
    /\ it.st = "panic"
    /\ out = <<last.a>>

\* a whole line of the grid with a step along one axis only and a diagonal
\* step
C7_NearWhole ==
    /\ NearLine
    /\ last.done
    /\ Len(out) >= 4
    /\ \E i \in 1 .. (Len(out) - 1) : out[i + 1].y = out[i].y
    /\ \E i \in 1 .. (Len(out) - 1) :
           out[i + 1].y # out[i].y /\ out[i + 1].x # out[i].x

(***************************************************************************)
(* Properties of the clipped line.                                         *)
(***************************************************************************)
\* C8: for all endpoints and every bitmap size, every position that
\* Bitmap::draw_line passes to draw_pixel has 0 <= x < width and
\* 0 <= y < height, so no pixel of another row is overwritten and no
\* out-of-range access occurs.
C8_NeverOutside ==
    last.op = "draw_line" =>
        /\ last.status = "ok"
        /\ \A i \in 1 .. Len(last.calls) : InFrame(last.calls[i], bmp.size)

\* the positions draw::line sets are filtered to the frame
C8_FilteredInside ==
    last.op = "line" => \A i \in 1 .. Len(last.calls) : InFrame(last.calls[i], bmp.size)

\* Bitmap::draw_line returned after passing x = width to draw_pixel, which
\* wrote the first pixel of the next row
C8_WroteNextRow ==
    /\ last.op = "draw_line"
    /\ last.status = "ok"
    /\ \E i \in 1 .. Len(last.calls) :
           /\ last.calls[i].x = bmp.size.w
           /\ last.calls[i].y + 1 < bmp.size.h
           /\ Vec2(0, last.calls[i].y + 1) \notin {last.calls[j] : j \in 1 .. Len(last.calls)}
           /\ bmp.inner[(last.calls[i].y + 1) * bmp.size.w * 4] = 255

\* Bitmap::draw_line panicked in draw_pixel on a position below the last row
C8_Panicked ==
    /\ last.op = "draw_line"
    /\ last.status = "panic"
    /\ last.calls[Len(last.calls)].y >= bmp.size.h

(***************************************************************************)
(* Properties of the triangle scan and of barycentric.                     *)
(***************************************************************************)
\* twice the signed area of (a, b, p): the edge cross product
Cross(a, b, p) == (b.x - a.x) * (p.y - a.y) - (b.y - a.y) * (p.x - a.x)

NonDegenerate(pts) == Cross(pts[1], pts[2], pts[3]) # 0

\* the edge cross-product sign test: p is on the inner side of every edge
EdgeSide(a, b, c, p) == Cross(a, b, p) * Cross(a, b, c)

OnOrInside(p, pts) ==
    /\ EdgeSide(pts[1], pts[2], pts[3], p) >= 0
    /\ EdgeSide(pts[2], pts[3], pts[1], p) >= 0
    /\ EdgeSide(pts[3], pts[1], pts[2], p) >= 0

StrictlyInside(p, pts) ==
    /\ EdgeSide(pts[1], pts[2], pts[3], p) > 0
    /\ EdgeSide(pts[2], pts[3], pts[1], p) > 0
    /\ EdgeSide(pts[3], pts[1], pts[2], p) > 0

\* the barycentric coordinates as exact rationals over the common
\* denominator den > 0: all three are >= 0
Covers(p, pts) ==
    LET ba == VSub(pts[2], pts[1])
        ca == VSub(pts[3], pts[1])
        pa == VSub(p, pts[1])
        nv == Dot(ca, ca) * Dot(pa, ba) - Dot(ba, ca) * Dot(pa, ca)
        nw == Dot(ba, ba) * Dot(pa, ca) - Dot(ba, ca) * Dot(pa, ba)
        den == Dot(ba, ba) * Dot(ca, ca) - Dot(ba, ca) * Dot(ba, ca)
    IN  nv >= 0 /\ nw >= 0 /\ den - nv - nw >= 0

\* the pixels of a frame in row-major order
RowMajor(size) ==
    [i \in 1 .. size.w * size.h |-> Vec2((i - 1) % size.w, (i - 1) \div size.w)]

PointsOf(s) == [i \in 1 .. Len(s) |-> s[i].pt]

ScanDone == last.op = "next" /\ last.done

\* C9: once the scan of a non-degenerate triangle has returned None, it has
\* yielded exactly the pixels of the frame whose barycentric coordinates
\* are all >= 0 (boundary included), each once, in row-major order
C9_ExactlyCovered ==
    (ScanDone /\ NonDegenerate(last.pts)) =>
        LET Hit(p) == Covers(p, last.pts)
        IN  PointsOf(out) = SelectSeq(RowMajor(last.size), Hit)

\* the scan yields, in row-major order, the pixels of the frame that pass
\* the test of Triangle::next on the coordinates barycentric returns
C9_ScansComputed ==
    ScanDone =>
        LET Hit(p) == Inside(barycentric(p, last.pts[1], last.pts[2], last.pts[3]))
        IN  PointsOf(out) = SelectSeq(RowMajor(last.size), Hit)

\* a finished scan that left out a pixel on the boundary of its triangle
C9_MissedBoundary ==
    /\ ScanDone
    /\ NonDegenerate(last.pts)
    /\ \E i \in 1 .. TriW * TriH :
           /\ Covers(RowMajor(last.size)[i], last.pts)
           /\ \A j \in 1 .. Len(out) : out[j].pt # RowMajor(last.size)[i]

Computed == last.op = "barycentric" /\ NonDegenerate(last.pts)

SumIsOne(br) == FAdd(FAdd(br.x, br.y), br.z) = FOne

\* C10: for a non-degenerate triangle, u + v + w = 1, and u, v, w are all
\* >= 0 exactly when the point is inside or on the boundary by the edge
\* cross-product sign test
C10_Partition ==
    Computed =>
        /\ SumIsOne(last.br)
        /\ Inside(last.br) <=> OnOrInside(last.p, last.pts)

\* the sign half of C10 alone
C10_Signs == Computed => (Inside(last.br) <=> OnOrInside(last.p, last.pts))

\* the sum half of C10 alone
C10_Sum == Computed => SumIsOne(last.br)

\* points strictly inside have u, v, w >= 0 and points strictly outside
\* have a negative coordinate
C10_StrictPartition ==
    Computed =>
        /\ StrictlyInside(last.p, last.pts) => Inside(last.br)
        /\ ~OnOrInside(last.p, last.pts) => ~Inside(last.br)

\* a boundary point with a negative coordinate
C10_BoundaryRejected ==
    /\ Computed
    /\ OnOrInside(last.p, last.pts)
    /\ ~Inside(last.br)

\* a point strictly inside was computed
C10_InsideSeen == Computed /\ StrictlyInside(last.p, last.pts)

(***************************************************************************)
(* Properties of the pixel iterators.                                      *)
(***************************************************************************)
Iterating == last.op \in IterOps

\* C11: for every width and height the iterators visit every pixel once in
\* row-major order and pair the i-th pixel with (i mod width, i div width):
\* the position is inside the bitmap and (y * width + x) * 4 is the byte
\* offset of the pixel yielded with it
C11_RowMajorPositions ==
    Iterating =>
        /\ \A k \in 1 .. Len(out) :
               /\ out[k].pos = Vec2((k - 1) % last.size.w, (k - 1) \div last.size.w)
               /\ InFrame(out[k].pos, last.size)
               /\ (out[k].pos.y * last.size.w + out[k].pos.x) * 4 = out[k].off
        /\ last.done => Len(out) = last.size.w * last.size.h

\* the pixels themselves are visited once each in memory order, and the
\* positions are the claimed ones when width = height
C11_PixelsOnceSquareRight ==
    Iterating =>
        /\ \A k \in 1 .. Len(out) :
               /\ out[k].off = (k - 1) * 4
               /\ last.size.w = last.size.h =>
                      out[k].pos = Vec2((k - 1) % last.size.w, (k - 1) \div last.size.w)
        /\ last.done => Len(out) = last.size.w * last.size.h

\* an iterator that yielded a position below the last row
C11_BelowLastRow ==
    /\ Iterating
    /\ \E k \in 1 .. Len(out) : out[k].pos.y >= last.size.h

\* a finished iterator that yielded one position twice
C11_PositionTwice ==
    /\ Iterating
    /\ last.done
    /\ \E j, k \in 1 .. Len(out) : j < k /\ out[j].pos = out[k].pos

(***************************************************************************)
(* Properties of Bitmap::draw_pixel.                                       *)
(***************************************************************************)
PixelDrawn == last.op = "draw_pixel"

\* the bytes of the bitmap that the call changed (they were all 0)
Written == {i \in DOMAIN bmp.inner : bmp.inner[i] # 0}

\* the four bytes of the pixel at pos
BytesOf(pos, width) ==
    {(pos.y * width + pos.x) * 4 + j : j \in 0 .. 3}

\* C12: draw_pixel panics for every position outside the bitmap and then
\* modifies no byte; it never silently writes to a pixel other than the
\* one addressed
C12_OutsidePanics ==
    PixelDrawn =>
        /\ ~InFrame(last.pos, bmp.size) => (last.status = "panic" /\ Written = {})
        /\ last.status = "ok" =>
               (InFrame(last.pos, bmp.size) /\ Written = BytesOf(last.pos, bmp.size.w))

\* a position inside the bitmap is written and nothing else is; a panic
\* leaves the bytes alone; a position at or below the last row with x >= 0
\* panics
C12_InsideAndBelow ==
    PixelDrawn =>
        /\ InFrame(last.pos, bmp.size) =>
               (last.status = "ok" /\ Written = BytesOf(last.pos, bmp.size.w))
        /\ last.status = "panic" => Written = {}
        /\ (last.pos.y >= bmp.size.h /\ last.pos.x >= 0) => last.status = "panic"

\* the call returned for x = width and wrote the first pixel of the next row
C12_WroteNextRow ==
    /\ PixelDrawn
    /\ last.status = "ok"
    /\ last.pos.x = bmp.size.w
    /\ Written = BytesOf(Vec2(0, last.pos.y + 1), bmp.size.w)

\* the call returned for x < 0 and wrote a pixel
C12_WroteForNegative ==
    /\ PixelDrawn
    /\ last.status = "ok"
    /\ last.pos.x < 0
    /\ Written # {}

(***************************************************************************)
(* Properties of the constructors.                                         *)
(***************************************************************************)
Constructed == last.op \in {"new", "drawn"}

RawLen == Cardinality(DOMAIN bmp.inner)

\* C13: Bitmap::new and Frame::new fail for every buffer whose length
\* differs from width * height * 4, so every bitmap or frame that exists
\* has raw length = width * height * 4, and no draw changes the length
C13_LengthAsserted ==
    Constructed =>
        /\ last.len # last.size.w * last.size.h * 4 => last.status = "panic"
        /\ last.status = "ok" =>
               (RawLen = last.len /\ RawLen = bmp.size.w * bmp.size.h * 4)

\* with debug assertions the constructors fail exactly for the wrong
\* lengths; in every build a draw leaves the length as constructed
C13_DebugAssertedLengthKept ==
    Constructed =>
        /\ last.build = "debug" =>
               (last.status = "ok" <=> last.len = last.size.w * last.size.h * 4)
        /\ last.status = "ok" => RawLen = last.len

\* a bitmap exists whose length is not width * height * 4
C13_WrongLengthExists ==
    /\ Constructed
    /\ last.status = "ok"
    /\ RawLen # bmp.size.w * bmp.size.h * 4

\* a constructor failed on its assertion
C13_Refused == Constructed /\ last.status = "panic"

(***************************************************************************)
(* Properties of the parallel frame clear.                                 *)
(***************************************************************************)
ParRunning == last.op = "par_iter_pixels_mut"

ParFinished ==
    /\ ParRunning
    /\ it.pending = {}
    /\ \A w \in Workers : it.busy[w] = Free

\* the sequential traversal: iter_pixels_mut, the closure on every item
SeqItems(size) == {IterItem([i |-> i, n |-> size.w * size.h, w |-> size.w, h |-> size.h]) :
                       i \in 0 .. (size.w * size.h - 1)}

SeqCleared(frame) == [i \in DOMAIN frame |-> [k \in 1 .. 4 |-> ClearedChannel(k)]]

\* C14: for any hand-out of the pixels to the workers and any interleaving
\* of their steps, no pixel is visited twice, and when all workers are done
\* every (position, pixel) pair of the sequential traversal was visited
\* once and the buffer is the one the sequential clear leaves: every pixel
\* (0, 0, 0, 255)
C14_ParallelAsSequential ==
    ParRunning =>
        /\ \A i \in DOMAIN out : Len(out[i]) <= 1
        /\ ParFinished =>
               /\ \A i \in DOMAIN out : Len(out[i]) = 1
               /\ {out[i][1] : i \in DOMAIN out} = SeqItems(last.size)
               /\ px = SeqCleared(DirtyFrame(last.size))
               /\ \A i \in DOMAIN px : px[i] = Black

\* all workers are done on a frame with width # height and a pixel for
\* every worker
C14_Witness ==
    /\ ParFinished
    /\ last.size.w # last.size.h
    /\ last.size.w * last.size.h >= ParWorkers

\* two workers in the middle of two pixels at once
C14_Interleaved ==
    /\ ParRunning
    /\ \E v, w \in Workers : v # w /\ it.busy[v].step > 1 /\ it.busy[w].step > 1

(***************************************************************************)
(* Properties of the unbounded triangle scan.                              *)
(***************************************************************************)
UnboundedDone == ScanDone /\ last.size.w = I32Max

\* the pixels of the square that holds every vertex of the model
NewPixels == NewVertices

Passes(p, pts) == Inside(barycentric(p, pts[1], pts[2], pts[3]))

Yields(p) == \E i \in 1 .. Len(out) : out[i].pt = p

\* C15: Triangle::new yields a pair for every integer pixel whose
\* barycentric coordinates are all non-negative, for any vertex positions,
\* triangles at negative x or y included
C15_EveryCoveredPixel ==
    UnboundedDone => \A p \in NewPixels : Passes(p, last.pts) => Yields(p)

\* Triangle::new yields exactly the pixels with x >= 0 and y >= 0 whose
\* barycentric coordinates are all non-negative
C15_OnlyFirstQuadrant ==
    UnboundedDone =>
        \A p \in NewPixels : Yields(p) <=> (Passes(p, last.pts) /\ p.x >= 0 /\ p.y >= 0)

\* a finished scan that left out a vertex of its triangle
C15_MissedVertex ==
    /\ UnboundedDone
    /\ NonDegenerate(last.pts)
    /\ ~Yields(last.pts[1])

(***************************************************************************)
(* Properties of Varying::interpolate.                                     *)
(***************************************************************************)
Interpolated == last.op = "interpolate"

\* the vertex the weights select, or 0 if they are not a vertex's weights
VertexOf(bar) ==
    IF bar = Vec3(FOne, FZero, FZero) THEN 1
    ELSE IF bar = Vec3(FZero, FOne, FZero) THEN 2
    ELSE IF bar = Vec3(FZero, FZero, FOne) THEN 3
    ELSE 0

AtVertex == Interpolated /\ VertexOf(last.bar) # 0

IsFinite(v) ==
    IF last.type = "f32" THEN v.k = "fin"
    ELSE IF last.type \in {"Rgba<f32>", "Rgb<f32>"} THEN \A ch \in DOMAIN v : v[ch].k = "fin"
    ELSE TRUE

OthersFinite ==
    \A i \in 1 .. 3 : i # VertexOf(last.bar) => IsFinite(last.tri[i])

\* C16 as amended: at the weights of a vertex interpolate returns that
\* vertex's value, for every implementation, when the values of the other
\* two vertices are finite
C16_VertexValues ==
    (AtVertex /\ OthersFinite) => last.result = last.tri[VertexOf(last.bar)]

\* C16: at the weights of a vertex interpolate returns that vertex's
\* value, for every implementation and every triple of vertex values
C16_AsStated ==
    AtVertex => last.result = last.tri[VertexOf(last.bar)]

\* an integer-channel colour with distinct channels went through the
\* promote-interpolate-truncate round trip at a vertex
C16_Witness ==
    /\ AtVertex
    /\ last.type = "Rgba<u8>"
    /\ last.tri[VertexOf(last.bar)] = <<1, 128, 254, 0>>
    /\ last.tri[1] # last.tri[2]
    /\ last.tri[2] # last.tri[3]

\* an infinite value at another vertex turned the result into NaN
C16_NaNFromOther ==
    /\ AtVertex
    /\ last.type = "f32"
    /\ last.tri[VertexOf(last.bar)].k = "fin"
    /\ last.result = FNaN

(***************************************************************************)
(* The clipped line draws against the unclipped line iterator.             *)
(***************************************************************************)
\* the points of the unclipped Bresenham sequence from a to b
Unclipped(a, b, build) ==
    UNION {{c.pts[i] : i \in 1 .. Len(c.pts)} :
               c \in {BresenhamCollect(BresenhamNew(Widen(a), Widen(b), build))}}

FilteredLine == {p \in Unclipped(last.a, last.b, last.build) : InFrame(p, bmp.size)}

FramePositions == {Vec2(x, y) : x \in 0 .. (bmp.size.w - 1), y \in 0 .. (bmp.size.h - 1)}

\* the pixels Bitmap::draw_line coloured (the bitmap was blank)
ColouredBytes == {p \in FramePositions : bmp.inner[(p.y * bmp.size.w + p.x) * 4] = 255}

\* the pixels draw::line coloured (the frame was black)
ColouredFrame == {p \in FramePositions : px[p.y * bmp.size.w + p.x] = White}

BothInside == InFrame(last.a, bmp.size) /\ InFrame(last.b, bmp.size)

\* C17: for all endpoints and every bitmap size the pixels coloured by
\* Bitmap::draw_line and by draw::line are the points of the unclipped
\* Bresenham sequence from a to b that lie inside the bitmap
C17_ClipByFilter ==
    /\ last.op = "draw_line" => (last.status = "ok" /\ ColouredBytes = FilteredLine)
    /\ last.op = "line" => ColouredFrame = FilteredLine

\* the same for draw::line alone
C17_LineFilters == last.op = "line" => ColouredFrame = FilteredLine

\* the same for Bitmap::draw_line with both endpoints inside the bitmap
C17_InsideAgree ==
    (last.op = "draw_line" /\ BothInside) =>
        (last.status = "ok" /\ ColouredBytes = FilteredLine)

\* Bitmap::draw_line returned and the pixels it coloured inside the bitmap
\* are not the positions it passed to draw_pixel
C17_OffLine ==
    /\ last.op = "draw_line"
    /\ last.status = "ok"
    /\ \A i \in 1 .. Len(last.calls) : InFrame(last.calls[i], bmp.size)
    /\ ColouredBytes # FilteredLine

(***************************************************************************)
(* The tie rule of the depth test.                                         *)
(***************************************************************************)
\* the fragment j of the last draw has the z stored at its pixel before
Tied(j) == LastFragments[j].z = last.depth0[IndexOf(LastFragments[j].pt)]

\* C18: a fragment whose z equals the z an earlier triangle stored at the
\* same pixel overwrites neither the depth entry nor the pixel colour,
\* whatever its colour: the fragment drawn first keeps both
C18_FirstDrawnWins ==
    last.op = "triangle" =>
        \A j \in LastRange :
            Tied(j) =>
                /\ depth[IndexOf(LastFragments[j].pt)] = last.depth0[IndexOf(LastFragments[j].pt)]
                /\ px[IndexOf(LastFragments[j].pt)] = last.px0[IndexOf(LastFragments[j].pt)]

\* a second triangle of another colour and another shape with a fragment
\* of equal z on a pixel the first one coloured, which kept its colour
C18_Witness ==
    /\ last.op = "triangle"
    /\ Len(drawn) = 2
    /\ drawn[1].tri.s # drawn[2].tri.s
    /\ \E j \in LastRange :
           /\ Tied(j)
           /\ px[IndexOf(LastFragments[j].pt)] = drawn[1].col
           /\ drawn[1].col # last.col

(***************************************************************************)
(* The error term of the line iterator.                                    *)
(***************************************************************************)
\* the iterator as Bresenham::new made it: its cur is the start
Started == BresenhamNew(last.a, last.b, last.build)

\* major and minor offset of the point about to be yielded from the start
MajorOffset == WSub(it.cur.x, Started.cur.x)

MinorOffset == WMul(WSub(it.cur.y, Started.cur.y), it.dy)

\* the coordinates of a yielded point along the major and the minor axis
Major(p) == IF it.steep THEN p.y ELSE p.x

Minor(p) == IF it.steep THEN p.x ELSE p.y

\* the minor coordinate advances by at most one signed step per major step
OneStepPerMajor ==
    \A i \in 1 .. (Len(out) - 1) :
        /\ Major(out[i + 1]) = WAdd(Major(out[i]), I64(1))
        /\ \/ Minor(out[i + 1]) = Minor(out[i])
           \/ Minor(out[i + 1]) = WAdd(Minor(out[i]), it.dy)

\* 2|d|k - 2Dj at major offset k and minor offset j, in isize arithmetic
HalfPixelError == WSub(WMul(it.de, MajorOffset), WMul(WMul(I64(2), it.dx), MinorOffset))

\* with D = dx and d the minor delta, e is 2|d|k - 2Dj at major offset k
\* and minor offset j, and it is at most D in magnitude
WithinHalfPixel ==
    /\ it.e = HalfPixelError
    /\ WLe(WNeg(it.dx), HalfPixelError)
    /\ WLe(HalfPixelError, it.dx)

\* the iterator is about to yield a point
BeforeYield == it.st = "ok" /\ ~Done(it)

\* the bounds of the claim with the lower one strict only for D > 0
ErrorBounded ==
    /\ OneStepPerMajor
    /\ BeforeYield =>
           /\ WLe(it.e, it.dx)
           /\ WLt(I64Zero, it.dx) => WLt(WNeg(it.dx), it.e)
           /\ WithinHalfPixel

\* for the lines between the points of the grid: before every yield
\* e <= D and, unless a = b (D = 0, e = 0), -D < e; every yielded point
\* satisfies |2|d|k - 2Dj| <= D; the minor coordinate advances by at most
\* one signed step per major step
C19_ErrorBounded == NearLine => ErrorBounded

\* C19: before every yield -D < e <= D, equivalently |2|d|k - 2Dj| <= D,
\* and the minor coordinate advances by at most one signed step per major
\* step
C19_AsStated ==
    last # Idle =>
        /\ OneStepPerMajor
        /\ BeforeYield =>
               /\ WLt(WNeg(it.dx), it.e)
               /\ WLe(it.e, it.dx)
               /\ WithinHalfPixel

\* the same without the line of a = b, whose D is 0
C19_Distinct ==
    (last # Idle /\ last.a # last.b) =>
        /\ OneStepPerMajor
        /\ BeforeYield =>
               /\ WLt(WNeg(it.dx), it.e)
               /\ WLe(it.e, it.dx)
               /\ WithinHalfPixel

\* the line from (0, 0) to (2^62 + 1, 2^62 + 1)
FarDiagonal ==
    /\ last # Idle
    /\ last.a = Vec2(I64Zero, I64Zero)
    /\ last.b = Vec2(WAdd(Pow2(62), I64(1)), WAdd(Pow2(62), I64(1)))

\* a release build of that line after its first point: de is 2 - 2^63 and
\* the error before the second yield is below -D
C19_ErrorBelow ==
    /\ FarDiagonal
    /\ last.build = "release"
    /\ Len(out) = 1
    /\ BeforeYield
    /\ it.de = WAdd(I64Min, I64(2))
    /\ WLt(it.e, WNeg(it.dx))

\* the second point of that line is (1, 0), not (1, 1)
C19_OffDiagonal ==
    /\ FarDiagonal
    /\ last.build = "release"
    /\ Len(out) = 2
    /\ out[2] = Vec2(I64(1), I64Zero)

\* a debug build of that line: Bresenham::new panicked
C19_NewPanics == FarDiagonal /\ last.build = "debug" /\ it.st = "panic"

\* the line of a = b on the grid before its only yield: D = 0 and e = 0
C19_PointLine ==
    /\ NearLine
    /\ last.a = last.b
    /\ BeforeYield
    /\ out = <<>>
    /\ it.dx = I64Zero
    /\ it.e = I64Zero

\* a line of the grid in its middle, after a minor step left a negative
\* error
C19_NearMiddle ==
    /\ NearLine
    /\ BeforeYield
    /\ Len(out) >= 2
    /\ WLt(it.e, I64Zero)
    /\ it.steep

(***************************************************************************)
(* The frame effect of a draw.                                             *)
(***************************************************************************)
\* the integer vertices draw::triangle gives to the rasterizer
LastPts == [i \in 1 .. 3 |-> XyAsI32(Vertices(last.tri)[i].pos)]

PixelAt(i) == Vec2(i % FrameW, i \div FrameW)

\* C20: draw::triangle changes pixel and depth entries only at in-frame
\* pixels the triangle covers; at each pixel the colour is written if and
\* only if the depth entry is: where the depth entry changed the pixel has
\* the fill colour, where it did not the pixel is as before.  draw::line
\* never modifies the depth buffer.
C20_FrameEffect ==
    /\ last.op = "triangle" =>
           \A i \in Pixels :
               /\ ~OnOrInside(PixelAt(i), LastPts) =>
                      (px[i] = last.px0[i] /\ depth[i] = last.depth0[i])
               /\ depth[i] # last.depth0[i] => px[i] = last.col
               /\ depth[i] = last.depth0[i] => px[i] = last.px0[i]
    /\ last.op = "line" => depth = last.depth0

\* a triangle drawn after a line: it changed a pixel of the line and the
\* depth entry there, and left a pixel outside it and a pixel behind an
\* earlier depth entry alone
C20_Witness ==
    /\ last.op = "triangle"
    /\ \E i \in Pixels : last.px0[i] = White /\ px[i] = last.col /\ depth[i] # last.depth0[i]
    /\ \E i \in Pixels : ~OnOrInside(PixelAt(i), LastPts) /\ last.px0[i] = White
    /\ \E i \in Pixels : OnOrInside(PixelAt(i), LastPts) /\ depth[i] = last.depth0[i]

\* a line drawn after a triangle: it changed pixels and no depth entry
C20_LineWitness ==
    /\ last.op = "line"
    /\ px # last.px0
    /\ \E i \in Pixels : depth[i] # F32Min

(***************************************************************************)
(* Properties of the plotting loops of Bitmap::draw_line.                  *)
(***************************************************************************)
\* a plotting loop of the call was reached
LoopEntered == last # Idle /\ it.entered

\* the position of the loop is not beyond its end in the stepping direction
NotBeyond(s) ==
    IF s.sign_x = 1 THEN WLe(s.x_pos, s.x_pos_end) ELSE WLe(s.x_pos_end, s.x_pos)

\* both endpoints are near the bitmap
NearCall == last # Idle /\ {last.a.x, last.a.y, last.b.x, last.b.y} \subseteq NearCoords

\* C21: Bitmap::draw_line terminates for every pair of endpoints and every
\* bitmap size: when a plotting loop is entered, its position is never
\* beyond its end in the stepping direction, so the loop reaches the end.
C21_NeverBeyondEnd == LoopEntered => NotBeyond(it)

\* for endpoints near the bitmap the loop starts before its end or at it,
\* and it ends within the width or the height of the bitmap
C21_NearLinesEnd ==
    LoopEntered /\ NearCall =>
        /\ NotBeyond(it)
        /\ it.st = "loop" => Len(it.calls) < MaxSide

\* the line from (-2^FarBit, 0) to (0, -2^FarBit)
FarCall ==
    /\ last # Idle
    /\ last.a = Vec2(WNeg(Pow2(FarBit)), I64Zero)
    /\ last.b = Vec2(I64Zero, WNeg(Pow2(FarBit)))

\* a release build of that call in a loop that started beyond its end: it
\* has written a pixel in every iteration so far and goes on
C21_RunsPastEnd ==
    /\ FarCall
    /\ LoopEntered
    /\ last.build = "release"
    /\ it.st = "loop"
    /\ ~NotBeyond(it)
    /\ Len(it.calls) = MaxIterations

\* the same call in a debug build panics (an overflow) before the loop
C21_DebugPanics ==
    /\ FarCall
    /\ last.build = "debug"
    /\ it.st = "panic"
    /\ ~it.entered

(***************************************************************************)
(* The two orders of the endpoints of a line.                              *)
(***************************************************************************)
\* the coordinate of p along the major axis of iterator k
MajorOf(k, p) == IF it[k].steep THEN p.y ELSE p.x

\* iterator k steps its major coordinate upward by exactly 1 per point and
\* starts at the endpoint with the lower major coordinate
UpwardFromLower(k) ==
    /\ \A i \in 1 .. (Len(out[k]) - 1) :
           MajorOf(k, out[k][i + 1]) = WAdd(MajorOf(k, out[k][i]), I64(1))
    /\ Len(out[k]) > 0 =>
           /\ out[k][1] \in {last.a, last.b}
           /\ MajorOf(k, out[k][1]) = WMin(MajorOf(k, last.a), MajorOf(k, last.b))

\* neither call panicked, the points yielded so far agree, and so do the
\* whole sequences
SameSequence ==
    /\ \A k \in Orders : it[k].st = "ok" /\ UpwardFromLower(k)
    /\ \A i \in 1 .. Min(Len(out[1]), Len(out[2])) : out[1][i] = out[2][i]
    /\ last.done[1] /\ last.done[2] => out[1] = out[2]

\* no difference of two coordinates of the endpoints overflows
NearPair == last # Idle /\ {last.a.x, last.a.y, last.b.x, last.b.y} \subseteq PairCoords \ {I64Min}

\* C22: Bresenham::new(a, b) and Bresenham::new(b, a) yield the identical
\* sequence of points for all integer a and b: each steps its major
\* coordinate upward by exactly 1 per yielded point, starting at the
\* endpoint with the lower major coordinate.
C22_BothOrdersAgree == last # Idle => SameSequence

\* the two orders agree for endpoints whose differences do not overflow
C22_NearOrdersAgree == NearPair => SameSequence

\* the line between (0, 0) and (0, isize::MIN)
MinPair == last # Idle /\ last.a = Vec2(I64Zero, I64Zero) /\ last.b = Vec2(I64Zero, I64Min)

\* a release build of that pair run to the None of both orders: each order
\* yields its own first endpoint and nothing else
C22_OrdersDiffer ==
    /\ MinPair
    /\ last.build = "release"
    /\ last.done = <<TRUE, TRUE>>
    /\ out = <<<<last.a>>, <<last.b>>>>

\* a debug build of that pair: both calls of new panic (an overflow)
C22_BothPanic ==
    /\ MinPair
    /\ last.build = "debug"
    /\ it[1].st = "panic"
    /\ it[2].st = "panic"

=============================================================================
